---- MODULE Spec2Model ----
(***************************************************************************)
(* A model of tockloader's host side of the serial bootloader protocol     *)
(* (src/tockloader/main.py, class TockLoader): the four operations         *)
(* flash_binary, append_binary, replace_binary and list_apps, down to the  *)
(* frames they write to the serial port and the bytes they read back.      *)
(*                                                                         *)
(* The bootloader on the board is the environment: every sp.read() returns *)
(* one of a small set of byte strings (the expected reply, an error reply, *)
(* a reply cut short by the 0.5 s timeout).                                *)
(***************************************************************************)
EXTENDS Integers, Sequences, FiniteSets, TLC

\* ------------------------------------------------------------------------
\* Global bootloader constants (main.py lines 25-68)
\* ------------------------------------------------------------------------
ESCAPE_CHAR == 252
COMMAND_PING == 1
COMMAND_RESET == 5
COMMAND_ERASE_PAGE == 6
COMMAND_WRITE_PAGE == 7
COMMAND_READ_RANGE == 17
COMMAND_CRC_INTERNAL_FLASH == 21
RESPONSE_PONG == 17
RESPONSE_BADADDR == 18
RESPONSE_INTERROR == 19
RESPONSE_BADARGS == 20
RESPONSE_OK == 21
RESPONSE_READ_RANGE == 32
RESPONSE_CRC_INTERNAL_FLASH == 35

SYNC_MESSAGE == <<0, ESCAPE_CHAR, COMMAND_RESET>>

\* The programming page: the literal 512 of flash_binary and _flash_binary.
PAGE_SIZE == 512
\* header_length = 76 of the three walk loops ("Version 1").
HEADER_LENGTH == 76
\* range(30) of _ping_bootloader_and_wait_for_response.
PING_ATTEMPTS == 30
\* The pad byte 0xFF of flash_binary, append_binary and replace_binary.
PAD_BYTE == 255

\* ------------------------------------------------------------------------
\* Bounds of the model
\* ------------------------------------------------------------------------
\* The walk loops of append/replace/list read at most this many headers: the
\* environment stops offering version-1 headers after MaxWalk - 1 of them.
MaxWalk == 2

\* ------------------------------------------------------------------------
\* Bytes, words and struct.pack / struct.unpack
\*
\* TLC's integers are 32-bit signed, so an unsigned 32-bit word read from the
\* wire is kept as its two 16-bit halves <<low, high>>; addresses and sizes,
\* which the model keeps below 2^31, are plain numbers.
\* ------------------------------------------------------------------------
\* 2^16, and the largest half.
U16 == 256 * 256
HALF_MAX == U16 - 1

\* struct.pack('<I', x): four bytes, least significant first. Every address
\* of the model is in 0 .. 2^31 - 1, where struct.pack('<I') does not raise.
PackU32(x) ==
    <<x % 256, (x \div 256) % 256, (x \div 65536) % 256, (x \div 16777216) % 256>>

\* struct.pack('<H', x)
PackU16(x) == <<x % 256, (x \div 256) % 256>>

\* struct.pack('<H', x) raises struct.error when x does not fit 16 bits.
FitsU16(x) == x >= 0 /\ x < U16

\* The word n (n < 2^31) as halves.
Word(n) == <<n % U16, n \div U16>>

\* struct.unpack('<I', s[k-1:k+3])[0] (k is 1-based), as halves.
UnpackU32At(s, k) == <<s[k] + 256 * s[k + 1], s[k + 2] + 256 * s[k + 3]>>

\* The four little-endian bytes of a word given as halves.
WordBytes(w) == <<w[1] % 256, w[1] \div 256, w[2] % 256, w[2] \div 256>>

\* The number a word stands for; the model only adds words below 2^31.
WordValue(w) == w[1] + U16 * w[2]

\* Python's s[a:b] on bytes (0-based, end exclusive, clipped to the length).
Slice(s, a, b) ==
    LET hi == IF b < Len(s) THEN b ELSE Len(s)
    IN  IF a >= hi THEN <<>> ELSE [k \in 1..(hi - a) |-> s[a + k]]

\* bytes([v] * n)
Repeat(v, n) == [k \in 1..n |-> v]

\* ------------------------------------------------------------------------
\* CRC-32 as crcmod.mkCrcFun(0x104c11db7, initCrc=0, xorOut=0xFFFFFFFF)
\* computes it (rev defaults to True): the reflected table-driven CRC with the
\* register started at xorOut ^ crc and the result xored with xorOut.
\* ------------------------------------------------------------------------
RECURSIVE XorBits(_, _, _)
\* Bitwise exclusive or of the n low bits of a and b.
XorBits(a, b, n) ==
    IF n = 0 THEN 0
    ELSE ((a + b) % 2) + 2 * XorBits(a \div 2, b \div 2, n - 1)

\* a ^ b on words.
XorWord(a, b) == <<XorBits(a[1], b[1], 16), XorBits(a[2], b[2], 16)>>

\* a >> 1 and a >> 8 on words.
ShiftRight1(a) == <<(a[1] \div 2) + 32768 * (a[2] % 2), a[2] \div 2>>
ShiftRight8(a) == <<(a[1] \div 256) + 256 * (a[2] % 256), a[2] \div 256>>

\* 0x104c11db7 bit-reversed over 32 bits is 0xEDB88320: halves 0x8320, 0xEDB8.
CRC_POLY_REFLECTED == <<33568, 60856>>
\* xorOut = 0xFFFFFFFF
CRC_XOR_OUT == <<HALF_MAX, HALF_MAX>>

RECURSIVE CrcShift(_, _)
\* One table entry: n steps of the reflected shift register.
CrcShift(c, n) ==
    IF n = 0 THEN c
    ELSE CrcShift(IF c[1] % 2 = 1 THEN XorWord(ShiftRight1(c), CRC_POLY_REFLECTED)
                  ELSE ShiftRight1(c), n - 1)

CrcTable == [n \in 0..255 |-> CrcShift(<<n, 0>>, 8)]

\* One byte through the register: table[(crc ^ byte) & 0xFF] ^ (crc >> 8).
CrcByte(crc, byte) ==
    XorWord(CrcTable[XorBits(crc[1] % 256, byte, 8)], ShiftRight8(crc))

RECURSIVE CrcRange(_, _, _, _)
\* The register after the bytes s[lo..hi], started at crc. The range is
\* halved and the left half's register is computed (the test on it) before
\* the right half starts, so that the evaluation nests log2(Len(s)) deep.
CrcRange(crc, s, lo, hi) ==
    IF lo > hi THEN crc
    ELSE IF lo = hi THEN CrcByte(crc, s[lo])
    ELSE LET mid == (lo + hi) \div 2
             left == CrcRange(crc, s, lo, mid)
         IN  IF left[1] >= 0 THEN CrcRange(left, s, mid + 1, hi) ELSE left

\* crc_function(data, 0), as halves.
Crc32(data) ==
    XorWord(CRC_XOR_OUT,
            CrcRange(XorWord(CRC_XOR_OUT, <<0, 0>>), data, 1, Len(data)))

\* ------------------------------------------------------------------------
\* Framing
\* ------------------------------------------------------------------------
RECURSIVE EscapeRange(_, _, _)
\* pkt.replace(bytes([ESCAPE_CHAR]), bytes([ESCAPE_CHAR, ESCAPE_CHAR])) on the
\* bytes s[lo..hi]: every escape byte doubled, left to right.
EscapeRange(s, lo, hi) ==
    IF lo > hi THEN <<>>
    ELSE IF lo = hi
         THEN (IF s[lo] = ESCAPE_CHAR THEN <<ESCAPE_CHAR, ESCAPE_CHAR>> ELSE <<s[lo]>>)
    ELSE LET mid == (lo + hi) \div 2
         IN  EscapeRange(s, lo, mid) \o EscapeRange(s, mid + 1, hi)

\* Mutant of Escape: nothing is doubled.
EscapeNothing(s) == s

Escape(s) == EscapeRange(s, 1, Len(s))

\* The frame _flash_binary writes for the page bytes at page address addr: the
\* packed address and the page, escaped, then the terminator.
WritePagePkt(addr, page_bytes) ==
    Escape(PackU32(addr) \o page_bytes) \o <<ESCAPE_CHAR, COMMAND_WRITE_PAGE>>

\* The frame _issue_command writes: pkt = message + bytes([ESCAPE_CHAR, command]).
IssuePkt(command, message) == message \o <<ESCAPE_CHAR, command>>

\* What _issue_command returns for the bytes ret that sp.read(2 + response_len)
\* gave: (success, data).
IssueCommand(reply, response_len, response_code) ==
    IF Len(reply) < 2 THEN [success |-> FALSE, data |-> <<>>]
    ELSE IF reply[1] # ESCAPE_CHAR THEN [success |-> FALSE, data |-> Slice(reply, 0, 2)]
    ELSE IF reply[2] # response_code THEN [success |-> FALSE, data |-> Slice(reply, 0, 2)]
    ELSE IF Len(reply) # 2 + response_len
         THEN [success |-> FALSE, data |-> Slice(reply, 0, 2)]
    ELSE [success |-> TRUE, data |-> Slice(reply, 2, Len(reply))]

\* The message of _read_range, _erase_page and _get_crc_internal_flash.
ReadRangeMessage(addr, length) == PackU32(addr) \o PackU16(length)
ErasePageMessage(addr) == PackU32(addr)
CrcMessage(addr, length) == PackU32(addr) \o PackU32(length)

\* ------------------------------------------------------------------------
\* The Tock Binary Format header, version 1 (_parse_tbf_header)
\* ------------------------------------------------------------------------
NoHeader ==
    [raised |-> FALSE, version |-> <<0, 0>>, total_size |-> <<0, 0>>,
     package_name_offset |-> <<0, 0>>, package_name_size |-> <<0, 0>>]

\* _parse_tbf_header(buffer): raised is TRUE where struct.unpack raises
\* struct.error (fewer than 4 bytes for the version, or not 72 bytes for the
\* eighteen words of a version-1 header). Only the fields the operations read
\* are kept; a header of another version has the version alone.
_parse_tbf_header(buffer) ==
    IF Len(Slice(buffer, 0, 4)) # 4 THEN [NoHeader EXCEPT !.raised = TRUE]
    ELSE LET version == UnpackU32At(buffer, 1)
         IN  IF version # Word(1) THEN [NoHeader EXCEPT !.version = version]
             ELSE IF Len(Slice(buffer, 4, HEADER_LENGTH)) # 72
                  THEN [NoHeader EXCEPT !.raised = TRUE, !.version = version]
             ELSE [raised |-> FALSE,
                   version |-> version,
                   total_size |-> UnpackU32At(buffer, 5),
                   package_name_offset |-> UnpackU32At(buffer, 65),
                   package_name_size |-> UnpackU32At(buffer, 69)]

\* bytes.decode('utf-8') raises UnicodeDecodeError on these bytes. The model's
\* byte strings hold ASCII or a lone lead byte >= 0x80, which is never valid
\* UTF-8 on its own; on ASCII the decoded string has the bytes as code points.
DecodeRaises(b) == \E k \in 1..Len(b) : b[k] >= 128

\* A version-1 header as the board stores it: 76 bytes, the version, then
\* eighteen words of which total_size is the first, package_name_offset the
\* sixteenth and package_name_size the seventeenth.
HeaderBytes(version, total_size, name_offset, name_size) ==
    LET words == [k \in 1..19 |->
                    IF k = 1 THEN version
                    ELSE IF k = 2 THEN Word(total_size)
                    ELSE IF k = 17 THEN Word(name_offset)
                    ELSE IF k = 18 THEN Word(name_size)
                    ELSE <<0, 0>>]
    IN  [k \in 1..HEADER_LENGTH |-> WordBytes(words[((k - 1) \div 4) + 1])[((k - 1) % 4) + 1]]

\* ------------------------------------------------------------------------
\* Inputs: the binaries and addresses the operations are called with
\* ------------------------------------------------------------------------
\* A Tock app image of the given length: a version-1 header, the one-byte
\* package name behind it, then code bytes (some of them the escape byte).
AppImage(total_size, name, length) ==
    LET header == HeaderBytes(Word(1), total_size, HEADER_LENGTH, Len(name))
    IN  [k \in 1..length |->
            IF k <= HEADER_LENGTH THEN header[k]
            ELSE IF k <= HEADER_LENGTH + Len(name) THEN name[k - HEADER_LENGTH]
            ELSE (k * 7) % 256]

NAME_A == <<97>>
NAME_B == <<98>>

\* One page that is no app header, with escape bytes next to each other at
\* its start, one in the middle and one as its last byte.
EscapePage ==
    [k \in 1..PAGE_SIZE |->
        IF k \in {1, 2, 100, PAGE_SIZE} THEN ESCAPE_CHAR ELSE (k * 3) % 251]

\* The binaries: empty; three bytes that are no app header and hold an escape
\* byte; app "b" of exactly one page; app "a" of 1000 bytes (two pages once
\* padded); the page of escape bytes; a file of two pages whose header is
\* that of app "b" and declares one page.
InputBinaries ==
    << <<>>,
       <<1, ESCAPE_CHAR, 2>>,
       AppImage(512, NAME_B, 512),
       AppImage(1024, NAME_A, 1000),
       EscapePage,
       AppImage(512, NAME_B, 1024) >>

\* 0x30000, the default --address, and 0xFC00, a page address with an escape
\* byte in it.
DEFAULT_ADDRESS == 196608
Addresses == {DEFAULT_ADDRESS, 64512}

\* The CRCs of the padded input binaries, computed once: crc_function looks
\* them up and computes the CRC of any other byte string afresh.
KnownCrcs ==
    LET images == { InputBinaries[k]
                    \o Repeat(PAD_BYTE, (PAGE_SIZE - (Len(InputBinaries[k]) % PAGE_SIZE)) % PAGE_SIZE) :
                    k \in DOMAIN InputBinaries }
    IN  [b \in images |-> Crc32(b)]

\* crc_function = crcmod.mkCrcFun(...); crc_function(binary, 0)
crc_function(data) ==
    IF data \in DOMAIN KnownCrcs THEN KnownCrcs[data] ELSE Crc32(data)

\* ------------------------------------------------------------------------
\* The environment: what sp.read() may return
\* ------------------------------------------------------------------------
RESPONSE_UNKNOWN == 22

\* To a ping: nothing or one byte before the timeout, a pong, a pong behind a
\* byte that is not the escape byte, another response.
PingReplies ==
    { <<>>, <<ESCAPE_CHAR>>, <<ESCAPE_CHAR, RESPONSE_PONG>>, <<0, RESPONSE_PONG>>,
      <<ESCAPE_CHAR, RESPONSE_OK>> }

\* To a write-page: the acknowledgement, each error, a reply without the
\* escape byte, nothing or one byte before the timeout.
PageReplies ==
    { <<ESCAPE_CHAR, RESPONSE_OK>>, <<ESCAPE_CHAR, RESPONSE_BADADDR>>,
      <<ESCAPE_CHAR, RESPONSE_INTERROR>>, <<ESCAPE_CHAR, RESPONSE_BADARGS>>,
      <<ESCAPE_CHAR, RESPONSE_UNKNOWN>>, <<0, RESPONSE_OK>>, <<>>, <<ESCAPE_CHAR>> }

\* The total_size values of the installed apps the board reports.
InstalledSizes == {512, 1024}
InstalledNames == {NAME_A, NAME_B}

\* To the read of a header when n version-1 headers were walked already: an
\* installed app (while n < MaxWalk), erased flash, zeroed flash, a header
\* of version 2; a refusal; nothing; a reply cut short.
HeaderReplies(n) ==
    LET ok == <<ESCAPE_CHAR, RESPONSE_READ_RANGE>>
        ends == { ok \o Repeat(255, HEADER_LENGTH), ok \o Repeat(0, HEADER_LENGTH),
                  ok \o HeaderBytes(Word(2), 0, 0, 0) }
        installed == { ok \o HeaderBytes(Word(1), sz, HEADER_LENGTH, ns) :
                          sz \in InstalledSizes, ns \in {0, 1} }
        bad  == { <<ESCAPE_CHAR, RESPONSE_BADADDR>>, <<>>,
                  ok \o Repeat(255, 10) }
    IN  ends \cup bad \cup (IF n < MaxWalk THEN installed ELSE {})

\* To the read of a package name of the given length.
NameReplies(length) ==
    { <<ESCAPE_CHAR, RESPONSE_READ_RANGE>> \o nm : nm \in {x \in InstalledNames : Len(x) = length} }
    \cup { <<ESCAPE_CHAR, RESPONSE_BADADDR>>, <<>> }

\* To a CRC request when the host's own CRC is crc: the same CRC, another
\* one, a refusal, nothing, a reply cut short.
CrcReplies(crc) ==
    LET ok == <<ESCAPE_CHAR, RESPONSE_CRC_INTERNAL_FLASH>>
    IN  { ok \o WordBytes(crc), ok \o WordBytes(XorWord(crc, <<1, 0>>)),
          <<ESCAPE_CHAR, RESPONSE_BADADDR>>, <<ESCAPE_CHAR, RESPONSE_BADARGS>>, <<>>,
          ok \o <<0, 0>> }

\* To an erase-page.
EraseReplies ==
    { <<ESCAPE_CHAR, RESPONSE_OK>>, <<ESCAPE_CHAR, RESPONSE_BADADDR>>,
      <<ESCAPE_CHAR, RESPONSE_BADARGS>>, <<ESCAPE_CHAR, RESPONSE_INTERROR>>, <<>> }

\* ------------------------------------------------------------------------
\* State
\* ------------------------------------------------------------------------
VARIABLES
    op,             \* the operation running or last run: none, flash, append, replace, list
    input,          \* the index in InputBinaries of the binary the operation was called with
    binary,         \* the local binary of the operation (padded once past the padding)
    address,        \* the address argument
    force,          \* append_binary's force argument
    pc,             \* where the operation is
    alive,          \* what _ping_bootloader_and_wait_for_response returned
    entered,        \* the local entered of the operation
    i,              \* the loop variable of the ping loop
    ret,            \* what the last sp.read() returned
    pkt,            \* the last frame written with sp.write()
    start_address,  \* the cursor of the walk loops
    walked,         \* the version-1 headers walked so far (app_index in list_apps)
    atbfh,          \* the header parsed last from flash
    apps,           \* the installed apps the walk met: where, and their total_size
    names,          \* what _get_app_name returned for each of them, in order
    new_name,       \* replace_binary: the name in the binary's own header
    new_total_size, \* replace_binary: tbfh['total_size'] of the binary's own header
    page,           \* the loop variable of _flash_binary
    crc_loader,     \* the CRC _check_crc computed locally
    log,            \* what the operation did on the serial port, in order
    printed,        \* what list_apps reported
    result,         \* what the operation returned, or the exception it raised
    flash,          \* the board's flash: what each page written or erased holds
    history,        \* the operations that ended before: their result, the flash then
    pending,        \* the serial line: bytes the bootloader sent that no sp.read() returned yet
    request,        \* how many command frames were written to the port
    stale,          \* the bytes that were pending when the last command frame was written
    got,            \* the bytes the reads for the last command returned, each with its request
    late,           \* some byte arrived only after the read for its command had returned
    tbfs,           \* TabApp.tbfs: the (TBF header, app binary) pairs of a TabApp
    tab_call,       \* the TabApp method called last, and its argument
    tab_result      \* what that call returned or raised

\* The state of the TabApp.
tabvars == <<tbfs, tab_call, tab_result>>

\* The state of the TockLoader and its serial port.
loadervars == <<op, input, binary, address, force, pc, alive, entered, i, ret, pkt,
                start_address, walked, atbfh, apps, names, new_name, new_total_size,
                page, crc_loader, log, printed, result, flash, history,
                pending, request, stale, got, late>>

\* The serial line between the two.
linkvars == <<pending, request, stale, got, late>>

vars == <<loadervars, tabvars>>

\* One entry of log: the sync message, a command frame with the address and
\* length packed in it, or a DTR/RTS sequence.
Sent(kind, addr, length) == [kind |-> kind, addr |-> addr, len |-> length]
Sync == Sent("sync", 0, 0)

\* No TabApp method was called, and what no call returned.
NoCall == [method |-> "none", arg |-> 0]
NoResult == [kind |-> "none", variant |-> 0, bytes |-> <<>>, size |-> 0]

\* A page of the board's flash that was not written or erased holds what it
\* held before, whatever that is; a page whose write was not answered holds
\* nobody knows what.
PRIOR_CONTENTS == <<-1>>
UNKNOWN_CONTENTS == <<-2>>
ERASED_PAGE == Repeat(255, PAGE_SIZE)

\* No page was written or erased.
NoPages == [a \in {} |-> PRIOR_CONTENTS]

\* What the page at addr holds in the flash f.
PageAt(f, addr) == IF addr \in DOMAIN f THEN f[addr] ELSE PRIOR_CONTENTS

\* The flash f with the page at addr holding contents.
WithPage(f, addr, contents) ==
    [a \in DOMAIN f \cup {addr} |-> IF a = addr THEN contents ELSE f[a]]

\* The board on a write-page that it answers with reply: the page is stored
\* when it acknowledges, kept when it refuses, and unknown when it sends no
\* whole answer.
AfterWritePage(f, addr, page_bytes, reply) ==
    IF reply = <<ESCAPE_CHAR, RESPONSE_OK>> THEN WithPage(f, addr, page_bytes)
    ELSE IF Len(reply) = 2 THEN f
    ELSE WithPage(f, addr, UNKNOWN_CONTENTS)

\* The board on an erase-page that it answers with reply: erased when it
\* acknowledges, kept when it refuses, unknown when it sends no answer.
AfterErasePage(f, addr, reply) ==
    IF reply = <<ESCAPE_CHAR, RESPONSE_OK>> THEN WithPage(f, addr, ERASED_PAGE)
    ELSE IF Len(reply) = 2 THEN f
    ELSE WithPage(f, addr, UNKNOWN_CONTENTS)

\* The TockLoader as constructed.
LoaderInit ==
    /\ op = "none" /\ input = 1 /\ binary = <<>> /\ address = 0 /\ force = FALSE
    /\ pc = "idle" /\ alive = FALSE /\ entered = FALSE /\ i = 0
    /\ ret = <<>> /\ pkt = <<>> /\ start_address = 0 /\ walked = 0
    /\ atbfh = NoHeader /\ apps = <<>> /\ names = <<>>
    /\ new_name = <<>> /\ new_total_size = <<0, 0>>
    /\ page = 0 /\ crc_loader = <<0, 0>> /\ log = <<>> /\ printed = <<>>
    /\ result = "none"
    /\ flash = NoPages /\ history = <<>>
    /\ pending = <<>> /\ request = 0 /\ stale = <<>> /\ got = <<>> /\ late = FALSE

\* A command that reads no TAB: the TabApp has no pairs.
Init ==
    /\ LoaderInit
    /\ tbfs = <<>> /\ tab_call = NoCall /\ tab_result = NoResult

\* ------------------------------------------------------------------------
\* Decisions of the code, one operator each
\* ------------------------------------------------------------------------
\* Mutant of Padded: the test on the remainder is missing, and a binary that
\* is a whole number of pages gets one more page of padding.
PaddedAlways(bin) ==
    bin \o Repeat(PAD_BYTE, PAGE_SIZE - (Len(bin) % PAGE_SIZE))

\* if len(binary) % 512 != 0: binary += bytes([0xFF] * (512 - len(binary) % 512))
Padded(bin) ==
    IF Len(bin) % PAGE_SIZE # 0
    THEN bin \o Repeat(PAD_BYTE, PAGE_SIZE - (Len(bin) % PAGE_SIZE))
    ELSE bin

\* address + (i*512) of _flash_binary
PageAddress(addr, n) == addr + n * PAGE_SIZE

\* range(len(binary) // 512) of _flash_binary
PageCount(bin) == Len(bin) \div PAGE_SIZE

\* len(ret) == 2 and ret[1] == RESPONSE_PONG
PongReceived(reply) == Len(reply) = 2 /\ reply[2] = RESPONSE_PONG

\* Mutant of AnotherPing: one round too many.
AnotherPingOffByOne(n) == n < PING_ATTEMPTS

\* for i in range(30): whether another round follows round n (0-based).
AnotherPing(n) == n + 1 < PING_ATTEMPTS

\* Mutants of Proceeds: the result of enter is not looked at, or is read the
\* wrong way round.
ProceedsAlways(entered_value) == TRUE
ProceedsInverted(entered_value) == ~entered_value

\* if not entered: return False
Proceeds(entered_value) == entered_value

\* What _flash_binary does with the two bytes read after a page:
\* "next" page, return "False", or raise "IndexError" on ret[0] or ret[1].
PageOutcome(reply) ==
    IF Len(reply) < 1 THEN "IndexError"
    ELSE IF reply[1] # ESCAPE_CHAR THEN "False"
    ELSE IF Len(reply) < 2 THEN "IndexError"
    ELSE IF reply[2] # RESPONSE_OK THEN "False"
    ELSE "next"

\* Mutant of AppendStep: a header of an unknown version ends the walk whether
\* forced or not.
AppendStepUnknownIsEnd(version, forced) ==
    IF version = Word(1) THEN "advance" ELSE "end"

\* The walk loop of append_binary on a parsed version.
AppendStep(version, forced) ==
    IF version = Word(1) THEN "advance"
    ELSE IF version = Word(0) \/ version = <<HALF_MAX, HALF_MAX>> \/ forced THEN "end"
    ELSE "abort"

\* Mutant of ListStep: a header of an unknown version is taken for the end
\* of the apps.
ListStepUnknownIsEnd(version) == IF version = Word(1) THEN "app" ELSE "end"

\* The walk loop of list_apps on a parsed version.
ListStep(version) ==
    IF version = Word(1) THEN "app"
    ELSE IF version = <<HALF_MAX, HALF_MAX>> \/ version = Word(0) THEN "end"
    ELSE "unknown"

\* Mutant of ReplaceHeaderStep: any header is taken for an installed app.
ReplaceHeaderStepAlwaysApp(version) == "app"

\* The walk loop of replace_binary on a parsed version: anything but
\* version 1 is the end of the apps.
ReplaceHeaderStep(version) == IF version = Word(1) THEN "app" ELSE "end"

\* Mutant of ReplaceStep: an app of the name but of another size is passed
\* over and the search goes on.
ReplaceStepSkipsMismatch(name, wanted, installed_size, image_size) ==
    IF name = wanted /\ installed_size = image_size THEN "overwrite" ELSE "next"

\* Mutant of ReplaceStep: the sizes are not compared.
ReplaceStepAnySize(name, wanted, installed_size, image_size) ==
    IF name = wanted THEN "overwrite" ELSE "next"

\* replace_binary on the name and size of an installed app.
ReplaceStep(name, wanted, installed_size, image_size) ==
    IF name = wanted
    THEN (IF installed_size = image_size THEN "overwrite" ELSE "mismatch")
    ELSE "next"

\* Mutant of CrcPassed: the comparison is dropped.
CrcPassedAlways(crc_bootloader, crc_local) == TRUE

\* crc_bootloader != crc_loader fails the check.
CrcPassed(crc_bootloader, crc_local) == crc_bootloader = crc_local

\* Mutant of CrcLength: the CRC is asked over one page.
CrcLengthOnePage(addr, bin) == PAGE_SIZE

\* The address and length _check_crc asks the CRC for.
CrcAddress(addr, bin) == addr
CrcLength(addr, bin) == Len(bin)

\* self._erase_page(address + len(binary))
ErasePageAddress(addr, bin) == addr + Len(bin)

\* Mutant of AfterCrc: the page behind the binary is not erased.
AfterCrcNoErase(o) == "exit"

\* What follows a passed CRC: flash and append erase the next page,
\* replace breaks out of its loop to the exit.
AfterCrc(o) == IF o = "replace" THEN "exit" ELSE "erase"

\* What follows the padding.
AfterPad(o) ==
    IF o = "flash" THEN "flash" ELSE IF o = "append" THEN "walk" ELSE "parse"

\* What follows a successful enter.
AfterEnter(o) == IF o = "list" THEN "walk" ELSE "pad"

\* ------------------------------------------------------------------------
\* The operations are called
\* ------------------------------------------------------------------------
\* Each command of main.py makes a TockLoader, opens the port and calls one
\* operation on it: an operation starts from the state after construction.
Call(o, k, a, f) ==
    /\ pc = "idle" /\ op = "none"
    /\ op' = o /\ input' = k /\ binary' = InputBinaries[k]
    /\ address' = a /\ force' = f
    /\ pc' = "toggle" /\ alive' = FALSE /\ entered' = FALSE /\ i' = 0
    /\ ret' = <<>> /\ pkt' = <<>> /\ start_address' = a /\ walked' = 0
    /\ atbfh' = NoHeader /\ apps' = <<>> /\ names' = <<>>
    /\ new_name' = <<>> /\ new_total_size' = <<0, 0>>
    /\ page' = 0 /\ crc_loader' = <<0, 0>> /\ log' = <<>> /\ printed' = <<>>
    /\ result' = "none"
    /\ UNCHANGED <<tabvars, linkvars, flash, history>>

flash_binary ==
    \E k \in DOMAIN InputBinaries, a \in Addresses : Call("flash", k, a, FALSE)

append_binary ==
    \E k \in DOMAIN InputBinaries, a \in Addresses, f \in BOOLEAN :
        Call("append", k, a, f)

replace_binary ==
    \E k \in DOMAIN InputBinaries, a \in Addresses : Call("replace", k, a, FALSE)

list_apps ==
    \E a \in Addresses : Call("list", 1, a, FALSE)

\* return from the operation, or an exception leaving it
Return(value) == pc' = "idle" /\ result' = value

\* ------------------------------------------------------------------------
\* Entering and leaving bootloader mode
\* ------------------------------------------------------------------------
_toggle_bootloader_entry ==
    /\ pc = "toggle"
    /\ log' = Append(log, Sent("toggle_bootloader_entry", 0, 0))
    /\ pc' = "ping"
    /\ UNCHANGED <<tabvars, linkvars, flash, history, names, apps, op, input, binary, address, force, alive, entered, i, ret, pkt,
                   start_address, walked, atbfh, new_name, new_total_size, page,
                   crc_loader, printed, result>>

\* One round of the ping loop: the ping is written, two bytes are read.
PingRound(reply) ==
    /\ pc = "ping"
    /\ pkt' = <<ESCAPE_CHAR, COMMAND_PING>>
    /\ ret' = reply
    /\ IF PongReceived(reply)
       THEN alive' = TRUE /\ pc' = "entered" /\ i' = i
       ELSE IF AnotherPing(i)
            THEN alive' = FALSE /\ pc' = "ping" /\ i' = i + 1
            ELSE alive' = FALSE /\ pc' = "entered" /\ i' = i
    /\ UNCHANGED <<tabvars, flash, history, names, apps, op, input, binary, address, force, entered, start_address, walked,
                   atbfh, new_name, new_total_size, page, crc_loader, log, printed,
                   result>>

\* The round on a port that hands the read any of PingReplies.
_ping_bootloader_and_wait_for_response ==
    \E reply \in PingReplies : PingRound(reply) /\ UNCHANGED linkvars

\* _enter_bootloader_mode returns what the ping loop returned, and the
\* operation returns False when that is False. The ping loop's locals end here.
_enter_bootloader_mode ==
    /\ pc = "entered"
    /\ entered' = alive
    /\ i' = 0 /\ ret' = <<>>
    /\ IF Proceeds(alive)
       THEN pc' = AfterEnter(op) /\ result' = result
       ELSE Return("False")
    /\ UNCHANGED <<tabvars, linkvars, flash, history, names, apps, op, input, binary, address, force, alive, pkt, start_address, walked,
                   atbfh, new_name, new_total_size, page, crc_loader, log, printed>>

\* Mutant of _exit_bootloader_mode: the operation returns True without the
\* DTR/RTS sequence.
ReturnWithoutExit ==
    /\ pc = "exit"
    /\ Return("True")
    /\ UNCHANGED <<tabvars, linkvars, flash, history, names, apps, op, input, binary, address, force, alive, entered, i, ret, pkt,
                   start_address, walked, atbfh, new_name, new_total_size, page,
                   crc_loader, printed, log>>

_exit_bootloader_mode ==
    /\ pc = "exit"
    /\ log' = Append(log, Sent("exit_bootloader_mode", 0, 0))
    /\ Return("True")
    /\ UNCHANGED <<tabvars, linkvars, flash, history, names, apps, op, input, binary, address, force, alive, entered, i, ret, pkt,
                   start_address, walked, atbfh, new_name, new_total_size, page,
                   crc_loader, printed>>

\* ------------------------------------------------------------------------
\* Padding, and replace_binary's look at its own binary
\* ------------------------------------------------------------------------
pad_binary ==
    /\ pc = "pad"
    /\ binary' = Padded(binary)
    /\ pc' = AfterPad(op)
    /\ UNCHANGED <<tabvars, linkvars, flash, history, names, apps, op, input, address, force, alive, entered, i, ret, pkt,
                   start_address, walked, atbfh, new_name, new_total_size, page,
                   crc_loader, log, printed, result>>

\* tbfh = self._parse_tbf_header(binary); the name is sliced out and decoded.
\* A binary shorter than a header raises struct.error, one of another
\* version KeyError (tbfh has no 'package_name_offset').
replace_parse ==
    /\ pc = "parse"
    /\ LET tbfh == _parse_tbf_header(binary)
           off  == WordValue(tbfh.package_name_offset)
           name_binary == Slice(binary, off, off + WordValue(tbfh.package_name_size))
       IN  IF tbfh.raised
           THEN Return("struct.error") /\ UNCHANGED <<new_name, new_total_size>>
           ELSE IF tbfh.version # Word(1)
           THEN Return("KeyError") /\ UNCHANGED <<new_name, new_total_size>>
           ELSE IF DecodeRaises(name_binary)
           THEN Return("UnicodeDecodeError") /\ UNCHANGED <<new_name, new_total_size>>
           ELSE /\ new_name' = name_binary
                /\ new_total_size' = tbfh.total_size
                /\ pc' = "walk" /\ result' = result
    /\ UNCHANGED <<tabvars, linkvars, flash, history, names, apps, op, input, binary, address, force, alive, entered, i, ret, pkt,
                   start_address, walked, atbfh, page, crc_loader, log, printed>>

\* ------------------------------------------------------------------------
\* Reading flash: the header walk of append, replace and list
\* ------------------------------------------------------------------------
\* _read_range(address, length) on the wire: the sync message, the frame, and
\* the 2 + length bytes read back.
ReadRangeIO(addr, length, reply) ==
    /\ ret' = reply
    /\ pkt' = IssuePkt(COMMAND_READ_RANGE, ReadRangeMessage(addr, length))
    /\ log' = log \o <<Sync, Sent("read_range", addr, length)>>

\* What _read_range returns: the data of _issue_command, whether it succeeded
\* or not.
_read_range(reply, length) == IssueCommand(reply, length, RESPONSE_READ_RANGE).data

\* The installed apps met so far, with the header h just parsed at cursor: a
\* version-1 header is an installed app of h.total_size bytes.
Met(met, cursor, h) ==
    IF ~h.raised /\ h.version = Word(1)
    THEN Append(met, [flash_address |-> cursor, total_size |-> WordValue(h.total_size)])
    ELSE met

\* Mutant of Advance: the cursor moves by a page, not by the app's size.
AdvanceByPage(cursor, total_size) == cursor + PAGE_SIZE

\* Mutant of Advance: the cursor moves past the header, not past the app.
AdvanceByHeader(cursor, total_size) == cursor + HEADER_LENGTH

\* start_address += atbfh['total_size']
Advance(cursor, total_size) == cursor + WordValue(total_size)

\* One iteration of append_binary's while loop, the board answering the read
\* of the header with one of replies.
AppendWalk(replies) ==
    /\ pc = "walk" /\ op = "append"
    /\ \E reply \in replies :
        LET h == _parse_tbf_header(_read_range(reply, HEADER_LENGTH))
            step == AppendStep(h.version, force)
        IN  /\ ReadRangeIO(start_address, HEADER_LENGTH, reply)
            /\ atbfh' = h
            /\ apps' = Met(apps, start_address, h)
            /\ IF h.raised
               THEN Return("struct.error") /\ UNCHANGED <<start_address, walked>>
               ELSE IF step = "advance"
               THEN /\ start_address' = Advance(start_address, h.total_size)
                    /\ walked' = walked + 1
                    /\ UNCHANGED <<pc, result>>
               ELSE IF step = "end"
               THEN pc' = "flash" /\ UNCHANGED <<start_address, walked, result>>
               ELSE Return("False") /\ UNCHANGED <<start_address, walked>>
    /\ UNCHANGED <<tabvars, linkvars, flash, history, names, op, input, binary, address, force, alive, entered, i, new_name,
                   new_total_size, page, crc_loader, printed>>

append_walk == AppendWalk(HeaderReplies(walked))

\* The head of one iteration of replace_binary's while loop: the header is
\* read; a header that is not of version 1 ends the search without a match.
ReplaceWalk(replies) ==
    /\ pc = "walk" /\ op = "replace"
    /\ \E reply \in replies :
        LET h == _parse_tbf_header(_read_range(reply, HEADER_LENGTH))
        IN  /\ ReadRangeIO(start_address, HEADER_LENGTH, reply)
            /\ atbfh' = h
            /\ apps' = Met(apps, start_address, h)
            /\ IF h.raised THEN Return("struct.error")
               ELSE IF ReplaceHeaderStep(h.version) = "app"
               THEN pc' = "name" /\ result' = result
               ELSE Return("False")
    /\ UNCHANGED <<tabvars, linkvars, flash, history, names, op, input, binary, address, force, alive, entered, i, start_address,
                   walked, new_name, new_total_size, page, crc_loader, printed>>

replace_walk == ReplaceWalk(HeaderReplies(walked))

\* The replies _get_app_name may read: none when the length is 0 (it returns
\* '' without reading).
NameReadReplies(length) == IF length = 0 THEN {<<>>} ELSE NameReplies(length)

\* _get_app_name(address, length) on the wire.
GetAppNameIO(addr, length, reply) ==
    IF length = 0 THEN UNCHANGED <<ret, pkt, log>>
    ELSE ReadRangeIO(addr, length, reply)

\* The bytes _get_app_name decodes.
NameMemory(length, reply) == IF length = 0 THEN <<>> ELSE _read_range(reply, length)

\* The rest of the iteration of replace_binary: the installed app's name is
\* read and compared.
replace_name ==
    /\ pc = "name" /\ op = "replace"
    /\ LET length == WordValue(atbfh.package_name_size)
           addr   == start_address + WordValue(atbfh.package_name_offset)
       IN  \E reply \in NameReadReplies(length) :
            LET name == NameMemory(length, reply)
                step == ReplaceStep(name, new_name, atbfh.total_size, new_total_size)
            IN  /\ GetAppNameIO(addr, length, reply)
                /\ names' = IF DecodeRaises(name) THEN names ELSE Append(names, name)
                /\ IF DecodeRaises(name)
                   THEN Return("UnicodeDecodeError") /\ UNCHANGED <<start_address, walked>>
                   ELSE IF step = "overwrite"
                   THEN pc' = "flash" /\ UNCHANGED <<start_address, walked, result>>
                   ELSE IF step = "mismatch"
                   THEN Return("False") /\ UNCHANGED <<start_address, walked>>
                   ELSE /\ start_address' = Advance(start_address, atbfh.total_size)
                        /\ walked' = walked + 1
                        /\ pc' = "walk" /\ result' = result
    /\ UNCHANGED <<tabvars, linkvars, flash, history, apps, op, input, binary, address, force, alive, entered, i, atbfh,
                   new_name, new_total_size, page, crc_loader, printed>>

\* One line of list_apps' report.
Report(what, index, name, first, last) ==
    [what |-> what, index |-> index, name |-> name, first |-> first, last |-> last]

\* The head of one iteration of list_apps' while loop.
ListWalk(replies) ==
    /\ pc = "walk" /\ op = "list"
    /\ \E reply \in replies :
        LET h == _parse_tbf_header(_read_range(reply, HEADER_LENGTH))
            step == ListStep(h.version)
        IN  /\ ReadRangeIO(start_address, HEADER_LENGTH, reply)
            /\ atbfh' = h
            /\ apps' = Met(apps, start_address, h)
            /\ IF h.raised THEN Return("struct.error") /\ UNCHANGED printed
               ELSE IF step = "app"
               THEN pc' = "name" /\ UNCHANGED <<printed, result>>
               ELSE IF step = "end"
               THEN /\ printed' = IF walked = 0
                                  THEN Append(printed, Report("no_apps", 0, <<>>, 0, 0))
                                  ELSE printed
                    /\ pc' = "exit" /\ result' = result
               ELSE /\ printed' = Append(printed, Report("unknown_version", walked, <<>>, 0, 0))
                    /\ pc' = "exit" /\ result' = result
    /\ UNCHANGED <<tabvars, linkvars, flash, history, names, op, input, binary, address, force, alive, entered, i, start_address,
                   walked, new_name, new_total_size, page, crc_loader>>

list_walk == ListWalk(HeaderReplies(walked))

\* The rest of the iteration for a version-1 header: the name is read, the
\* app is reported and the cursor advances.
list_name ==
    /\ pc = "name" /\ op = "list"
    /\ LET length == WordValue(atbfh.package_name_size)
           addr   == start_address + WordValue(atbfh.package_name_offset)
           size   == WordValue(atbfh.total_size)
       IN  \E reply \in NameReadReplies(length) :
            LET name == NameMemory(length, reply)
            IN  /\ GetAppNameIO(addr, length, reply)
                /\ names' = IF DecodeRaises(name) THEN names ELSE Append(names, name)
                /\ IF DecodeRaises(name)
                   THEN Return("UnicodeDecodeError")
                        /\ UNCHANGED <<start_address, walked, printed>>
                   ELSE /\ printed' = Append(printed,
                              Report("app", walked, name, start_address,
                                     start_address + size - 1))
                        /\ start_address' = Advance(start_address, atbfh.total_size)
                        /\ walked' = walked + 1
                        /\ pc' = "walk" /\ result' = result
    /\ UNCHANGED <<tabvars, linkvars, flash, history, apps, op, input, binary, address, force, alive, entered, i, atbfh,
                   new_name, new_total_size, page, crc_loader>>

\* ------------------------------------------------------------------------
\* Writing pages, checking the CRC, erasing the next page
\* ------------------------------------------------------------------------
\* One iteration of _flash_binary's for loop, or its end (return True).
\* The loop is through: return True.
PagesDone ==
    /\ pc = "flash" /\ page >= PageCount(binary)
    /\ pc' = "crc"
    /\ UNCHANGED <<tabvars, history, names, apps, op, input, binary, address, force, alive, entered, i, start_address,
                   walked, atbfh, new_name, new_total_size, crc_loader, printed,
                   ret, pkt, log, page, result, flash>>

\* One page is written, reply is read for it; answer is what the board sent.
FlashPage(reply, answer) ==
    /\ pc = "flash" /\ page < PageCount(binary)
    /\ LET addr == PageAddress(start_address, page)
           page_bytes == Slice(binary, page * PAGE_SIZE, (page + 1) * PAGE_SIZE)
           frame == WritePagePkt(addr, page_bytes)
       IN  /\ log' = log \o <<Sync, Sent("write_page", addr, PAGE_SIZE)>>
           /\ pkt' = frame
           /\ ret' = reply
           /\ flash' = AfterWritePage(flash, addr, page_bytes, answer)
           /\ IF PageOutcome(reply) = "next"
              THEN page' = page + 1 /\ UNCHANGED <<pc, result>>
              ELSE Return(PageOutcome(reply)) /\ UNCHANGED page
    /\ UNCHANGED <<tabvars, history, names, apps, op, input, binary, address, force, alive, entered, i, start_address,
                   walked, atbfh, new_name, new_total_size, crc_loader, printed>>

_flash_binary ==
    \/ PagesDone /\ UNCHANGED linkvars
    \/ \E reply \in PageReplies : FlashPage(reply, reply) /\ UNCHANGED linkvars

\* _check_crc: _get_crc_internal_flash asks for the CRC (and reads two more
\* bytes that it drops), then the CRC of the local binary is compared. A
\* failed command leaves crc[1] (IndexError on an empty reply) or
\* struct.unpack on no bytes (struct.error).
CheckCrc(reply) ==
    /\ pc = "crc"
    /\ LET local == crc_function(binary)
           addr  == CrcAddress(start_address, binary)
           length == CrcLength(start_address, binary)
           r == IssueCommand(reply, 4, RESPONSE_CRC_INTERNAL_FLASH)
       IN  /\ log' = log \o <<Sync, Sent("crc_internal_flash", addr, length)>>
           /\ pkt' = IssuePkt(COMMAND_CRC_INTERNAL_FLASH, CrcMessage(addr, length))
           /\ ret' = reply
           /\ IF ~r.success
              THEN /\ Return(IF Len(r.data) < 2 THEN "IndexError" ELSE "struct.error")
                   /\ UNCHANGED crc_loader
              ELSE /\ crc_loader' = local
                   /\ IF CrcPassed(UnpackU32At(r.data, 1), local)
                      THEN pc' = AfterCrc(op) /\ result' = result
                      ELSE Return("False")
    /\ UNCHANGED <<tabvars, flash, history, names, apps, op, input, binary, address, force, alive, entered, i, start_address,
                   walked, atbfh, new_name, new_total_size, page, printed>>

_check_crc ==
    /\ pc = "crc"
    /\ \E reply \in CrcReplies(crc_function(binary)) : CheckCrc(reply) /\ UNCHANGED linkvars

\* self._erase_page(address + len(binary)): its result is dropped by the
\* caller; an empty reply raises IndexError on ret[1].
ErasePage(reply, answer) ==
    /\ pc = "erase"
    /\ LET addr == ErasePageAddress(start_address, binary)
           r == IssueCommand(reply, 0, RESPONSE_OK)
       IN  /\ log' = log \o <<Sync, Sent("erase_page", addr, 0)>>
           /\ pkt' = IssuePkt(COMMAND_ERASE_PAGE, ErasePageMessage(addr))
           /\ ret' = reply
           /\ flash' = AfterErasePage(flash, addr, answer)
           /\ IF ~r.success /\ Len(r.data) < 2
              THEN Return("IndexError")
              ELSE pc' = "exit" /\ result' = result
    /\ UNCHANGED <<tabvars, history, names, apps, op, input, binary, address, force, alive, entered, i, start_address,
                   walked, atbfh, new_name, new_total_size, page, crc_loader, printed>>

_erase_page ==
    \E reply \in EraseReplies : ErasePage(reply, reply) /\ UNCHANGED linkvars

\* ------------------------------------------------------------------------
\* TabApp: the (TBF header, app binary) pairs of one app (app_tab.py)
\* ------------------------------------------------------------------------
\* How many pairs a TabApp of the model holds at most.
MaxVariants == 2

\* The header sizes, app binary lengths, total sizes and first fixed flash
\* addresses of the pairs, the addresses get_binary is asked for and the
\* sizes set_size is asked for.
HeaderSizes == {8, 16}
PayloadSizes == {8, 40}
AppSizes == {32, 64}
FixedFlashAddresses == {264, 520}
TargetAddresses == {256, 512}
RequestedSizes == {32, 64}

\* One pair: the header's fields that TabApp reads through tbfh (whether it
\* has fixed addresses, get_fixed_addresses()[0], get_header_size(),
\* get_app_size(), the sticky flag) and len(app_binary).
Variants ==
    [fixed : {FALSE}, flash : {0}, header_size : HeaderSizes,
     app_size : AppSizes, payload : PayloadSizes, sticky : {FALSE}]
    \cup
    [fixed : {TRUE}, flash : FixedFlashAddresses, header_size : HeaderSizes,
     app_size : AppSizes, payload : PayloadSizes, sticky : {FALSE}]

RECURSIVE SeqsUpTo(_, _)
\* The sequences over S of at most n elements.
SeqsUpTo(S, n) ==
    IF n = 0 THEN {<<>>}
    ELSE LET shorter == SeqsUpTo(S, n - 1)
         IN  shorter \cup {Append(q, x) : q \in {r \in shorter : Len(r) = n - 1}, x \in S}

\* TabApp(tbfs) for a list of pairs.
TabInit ==
    /\ LoaderInit
    /\ tbfs \in SeqsUpTo(Variants, MaxVariants)
    /\ tab_call = NoCall /\ tab_result = NoResult

\* tbfh.get_binary() + app_binary of pair k: the header's bytes, then the app
\* binary's, each byte named by where it comes from.
PairBinary(pairs, k) ==
    [j \in 1..(pairs[k].header_size + pairs[k].payload) |->
        IF j <= pairs[k].header_size THEN <<"header", k, j>>
        ELSE <<"app_binary", k, j - pairs[k].header_size>>]

\* app_sizes = set([tbf[0].get_app_size() for tbf in self.tbfs])
app_sizes(pairs) == {pairs[k].app_size : k \in 1..Len(pairs)}

\* get_size: the one size, or TockLoaderException.
GetSize(pairs) ==
    IF Cardinality(app_sizes(pairs)) > 1
    THEN [NoResult EXCEPT !.kind = "Different app sizes"]
    ELSE IF Cardinality(app_sizes(pairs)) = 0
    THEN [NoResult EXCEPT !.kind = "No TBF apps"]
    ELSE [NoResult EXCEPT !.kind = "size", !.size = CHOOSE z \in app_sizes(pairs) : TRUE]

\* Mutant of Usable: the fixed address itself is compared with the address,
\* the header size left out.
UsableAtFixedAddress(v, addr) ==
    IF v.fixed = FALSE THEN TRUE
    ELSE v.flash = addr

\* The test of get_binary's loop on one pair: not compiled for a fixed
\* address, or the header ends up at the address.
Usable(v, addr) ==
    IF v.fixed = FALSE THEN TRUE
    ELSE v.flash - v.header_size = addr

\* Mutant of FirstUsable: the loop does not break, the last pair that passes
\* the test is taken.
FirstUsableNoBreak(pairs, addr, k) ==
    LET passing == {j \in k..Len(pairs) : Usable(pairs[j], addr)}
    IN  IF passing = {} THEN 0 ELSE CHOOSE j \in passing : \A m \in passing : m <= j

RECURSIVE FirstUsable(_, _, _)
\* get_binary's loop from pair k on: the pair whose binary it takes before
\* the break, or 0.
FirstUsable(pairs, addr, k) ==
    IF k > Len(pairs) THEN 0
    ELSE IF Usable(pairs[k], addr) THEN k
    ELSE FirstUsable(pairs, addr, k + 1)

\* get_binary(address): None, the binary cut to get_size(), or the
\* exception of get_size.
GetBinary(pairs, addr) ==
    LET k == FirstUsable(pairs, addr, 1)
        size == GetSize(pairs)
        whole == PairBinary(pairs, k)
    IN  IF k = 0 THEN [NoResult EXCEPT !.kind = "None"]
        ELSE IF size.kind # "size" THEN size
        ELSE [kind |-> "bytes", variant |-> k, size |-> size.size,
              bytes |-> IF Len(whole) > size.size THEN Slice(whole, 0, size.size) ELSE whole]

\* Mutant of SetSizeLoop: every pair gets the size, none is checked.
SetSizeLoopUnchecked(pairs, size, k) ==
    [pairs |-> [j \in 1..Len(pairs) |-> [pairs[j] EXCEPT !.app_size = size]],
     raised |-> FALSE]

RECURSIVE SetSizeLoop(_, _, _)
\* set_size's loop from pair k on: the pairs as it leaves them, and whether
\* it raised.
SetSizeLoop(pairs, size, k) ==
    IF k > Len(pairs) THEN [pairs |-> pairs, raised |-> FALSE]
    ELSE IF size < pairs[k].header_size + pairs[k].payload
    THEN [pairs |-> pairs, raised |-> TRUE]
    ELSE SetSizeLoop([pairs EXCEPT ![k].app_size = size], size, k + 1)

get_size ==
    /\ tab_call' = [method |-> "get_size", arg |-> 0]
    /\ tab_result' = GetSize(tbfs)
    /\ UNCHANGED <<tbfs, loadervars>>

set_size ==
    \E size \in RequestedSizes :
        LET done == SetSizeLoop(tbfs, size, 1)
        IN  /\ tab_call' = [method |-> "set_size", arg |-> size]
            /\ tbfs' = done.pairs
            /\ tab_result' = [NoResult EXCEPT
                                !.kind = IF done.raised THEN "Cannot make app smaller"
                                         ELSE "returned"]
            /\ UNCHANGED loadervars

set_sticky ==
    /\ tab_call' = [method |-> "set_sticky", arg |-> 0]
    /\ tbfs' = [k \in 1..Len(tbfs) |-> [tbfs[k] EXCEPT !.sticky = TRUE]]
    /\ tab_result' = [NoResult EXCEPT !.kind = "returned"]
    /\ UNCHANGED loadervars

get_binary ==
    \E addr \in TargetAddresses :
        /\ tab_call' = [method |-> "get_binary", arg |-> addr]
        /\ tab_result' = GetBinary(tbfs, addr)
        /\ UNCHANGED <<tbfs, loadervars>>

\* ------------------------------------------------------------------------
\* The specification
\* ------------------------------------------------------------------------
Next ==
    \/ flash_binary
    \/ append_binary
    \/ replace_binary
    \/ list_apps
    \/ _toggle_bootloader_entry
    \/ _ping_bootloader_and_wait_for_response
    \/ _enter_bootloader_mode
    \/ pad_binary
    \/ replace_parse
    \/ append_walk
    \/ replace_walk
    \/ replace_name
    \/ list_walk
    \/ list_name
    \/ _flash_binary
    \/ _check_crc
    \/ _erase_page
    \/ _exit_bootloader_mode

Spec == Init /\ [][Next]_vars

\* The calls on a TabApp.
TabNext ==
    \/ get_size
    \/ set_size
    \/ set_sticky
    \/ get_binary

TabSpec == TabInit /\ [][TabNext]_vars

\* ------------------------------------------------------------------------
\* Reading the log
\* ------------------------------------------------------------------------
IsWritePage(e) == e.kind = "write_page"
IsReadRange(e) == e.kind = "read_range"
IsErasePage(e) == e.kind = "erase_page"
IsCrc(e) == e.kind = "crc_internal_flash"
IsExit(e) == e.kind = "exit_bootloader_mode"
IsCommand(e) == IsWritePage(e) \/ IsReadRange(e) \/ IsErasePage(e) \/ IsCrc(e)

WritesSent == SelectSeq(log, IsWritePage)
ReadsSent == SelectSeq(log, IsReadRange)
ErasesSent == SelectSeq(log, IsErasePage)
CrcsSent == SelectSeq(log, IsCrc)

\* The binary the operation was called with, and its length rounded up to
\* whole pages.
GivenBinary == InputBinaries[input]
RoundedUp(n) == ((n + PAGE_SIZE - 1) \div PAGE_SIZE) * PAGE_SIZE

\* The operation is past its padding step.
PastPadding ==
    \/ pc \in {"parse", "walk", "name", "flash", "crc", "erase", "exit"}
    \/ pc = "idle" /\ entered

Returned == pc = "idle" /\ op # "none"

\* s is the start of t.
IsPrefix(s, t) == Len(s) <= Len(t) /\ \A k \in 1..Len(s) : s[k] = t[k]

\* ------------------------------------------------------------------------
\* C1: flash_binary pads the binary with 0xFF bytes up to the next multiple
\* of 512 (not at all when it is one already), and its write-page commands
\* go to address, address + 512, address + 1024, ... in this order, one for
\* each page of the padded binary once the page loop is through.
\* ------------------------------------------------------------------------
C1_PaddingAndPageAddresses ==
    (op = "flash" /\ PastPadding) =>
        LET given == GivenBinary
            total == RoundedUp(Len(given))
            w == WritesSent
        IN  /\ Len(binary) = total
            /\ total % PAGE_SIZE = 0
            /\ total - Len(given) < PAGE_SIZE
            /\ \A k \in 1..total :
                 binary[k] = IF k <= Len(given) THEN given[k] ELSE 255
            /\ Len(w) <= total \div PAGE_SIZE
            /\ \A k \in 1..Len(w) : w[k].addr = address + (k - 1) * 512
            /\ (pc \in {"crc", "erase", "exit"} \/ result = "True")
                  => Len(w) = total \div PAGE_SIZE

\* S1: 1000 bytes flashed at 0x30000 went out as two pages, at 0x30000 and
\* 0x30200, the binary padded to 1024 bytes.
C1_Witness ==
    /\ op = "flash" /\ result = "True" /\ input = 4 /\ address = 196608
    /\ Len(binary) = 1024 /\ binary[1000] # 255 /\ binary[1001] = 255
    /\ Len(WritesSent) = 2
    /\ WritesSent[1].addr = 196608 /\ WritesSent[2].addr = 197120

\* ------------------------------------------------------------------------
\* C2: a successful flash_binary has entered bootloader mode, written every
\* page, asked for the CRC over the padded length, erased the page behind
\* the binary and left bootloader mode, in this order and with nothing else
\* in between; at every moment what it has sent is a start of that
\* sequence, and the erase is sent only on a CRC reply that matches.
\* ------------------------------------------------------------------------
\* What a complete flash_binary of n pages at a sends.
FlashSequence(a, n) ==
    <<Sent("toggle_bootloader_entry", 0, 0)>>
    \o [k \in 1..(2 * n) |->
          IF k % 2 = 1 THEN Sync ELSE Sent("write_page", a + ((k \div 2) - 1) * 512, 512)]
    \o <<Sync, Sent("crc_internal_flash", a, n * 512),
         Sync, Sent("erase_page", a + n * 512, 0),
         Sent("exit_bootloader_mode", 0, 0)>>

C2_FlashOrder ==
    (op = "flash" /\ pc # "toggle") =>
        LET n == RoundedUp(Len(GivenBinary)) \div 512
            full == FlashSequence(address, n)
        IN  /\ IsPrefix(log, full)
            /\ Len(log) > 1 => entered
            /\ result = "True" => log = full
            /\ pc = "erase" =>
                 /\ Len(WritesSent) = n
                 /\ ret = <<ESCAPE_CHAR, RESPONSE_CRC_INTERNAL_FLASH>>
                          \o WordBytes(crc_function(Padded(GivenBinary)))
            /\ Len(ErasesSent) > 0 => pc \in {"exit", "idle"}

C2_Witness ==
    /\ op = "flash" /\ result = "True" /\ input = 4
    /\ Len(log) = 10 /\ IsExit(log[10])

\* ------------------------------------------------------------------------
\* C3: in every operation a read-range, write-page, erase-page or CRC
\* request is sent only after the operation's enter succeeded and before
\* its exit sequence.
\* ------------------------------------------------------------------------
C3_CommandsOnlyInBootloader ==
    \A k \in 1..Len(log) :
        IsCommand(log[k]) =>
            /\ entered
            /\ log[1].kind = "toggle_bootloader_entry"
            /\ \A j \in 1..k : ~IsExit(log[j])

C3_Witness ==
    /\ op = "list" /\ result = "True" /\ walked = 2
    /\ Len(ReadsSent) >= 3 /\ IsExit(log[Len(log)])

\* ------------------------------------------------------------------------
\* C4: enter sends at most 30 pings, each followed by one read of two
\* bytes; it succeeds at the first round whose reply is two bytes with the
\* pong code second and pings no more after it; it fails exactly when all
\* 30 rounds were answered short or with another second byte.
\* ------------------------------------------------------------------------
C4_PingRounds ==
    /\ [](/\ pc = "ping" => (i < 30 /\ ~alive)
          /\ pc = "entered" =>
               /\ i < 30
               /\ alive <=> (Len(ret) = 2 /\ ret[2] = 17)
               /\ ~alive => i = 29)
    /\ [][/\ (pc = "ping" /\ pc' = "ping") =>
               (i' = i + 1 /\ ~(Len(ret') = 2 /\ ret'[2] = 17))
          /\ (pc = "ping" /\ Len(ret') = 2 /\ ret'[2] = 17) =>
               (pc' = "entered" /\ alive' /\ i' = i)
          /\ pc' = "ping" => pc \in {"toggle", "ping"}
          /\ pc = "toggle" => i' = 0]_vars

\* S2: the sixth ping is the first that is answered (0xFC, 0x11).
C4_Witness ==
    pc = "entered" /\ alive /\ i = 5 /\ ret = <<252, 17>>

\* ------------------------------------------------------------------------
\* C5: when enter fails, the operation returns False and has sent no
\* read-range, write-page, erase-page or CRC request.
\* ------------------------------------------------------------------------
C5_EnterFailure ==
    (op # "none" /\ pc \notin {"toggle", "ping", "entered"} /\ ~alive) =>
        /\ pc = "idle" /\ result = "False"
        /\ \A k \in 1..Len(log) : ~IsCommand(log[k])
        /\ binary = GivenBinary

C5_Witness ==
    /\ op = "replace" /\ pc = "idle" /\ ~alive /\ result = "False"
    /\ log = <<Sent("toggle_bootloader_entry", 0, 0)>>

\* ------------------------------------------------------------------------
\* C6: page writes are one-shot: no page address gets two write-page
\* commands in one flash, append or replace, and the first page that is not
\* acknowledged with (0xFC, OK) is the last one written and makes the
\* operation return False.
\* ------------------------------------------------------------------------
Writing == op \in {"flash", "append", "replace"}

\* The last thing sent was a page, and what was read for it is not the
\* acknowledgement.
PageNotAcknowledged ==
    /\ Len(log) > 0 /\ IsWritePage(log[Len(log)])
    /\ ret # <<ESCAPE_CHAR, RESPONSE_OK>>

\* C6: no page address is written twice, and a page that is not acknowledged
\* with (0xFC, OK) ends the operation with the result False.
C6_OneShotPages ==
    Writing =>
        /\ \A j, k \in 1..Len(WritesSent) :
             j # k => WritesSent[j].addr # WritesSent[k].addr
        /\ PageNotAcknowledged => (pc = "idle" /\ result = "False")

\* What the code does hold to: a page is never written twice, and a page
\* that is not acknowledged ends the operation, with False or with an
\* IndexError from ret[0] or ret[1].
C6_OneShotOrRaise ==
    Writing =>
        /\ \A j, k \in 1..Len(WritesSent) :
             j # k => WritesSent[j].addr # WritesSent[k].addr
        /\ PageNotAcknowledged => (pc = "idle" /\ result \in {"False", "IndexError"})

\* ------------------------------------------------------------------------
\* C7: when the CRC the bootloader returns differs from the CRC of the
\* padded binary, the operation returns False, the CRC request is the last
\* thing it sent (no page again) and no erase-page is sent.
\* ------------------------------------------------------------------------
\* The last read is a whole CRC reply whose CRC is not that of the padded
\* binary the operation was given.
CrcMismatch ==
    /\ Len(CrcsSent) > 0
    /\ Len(ret) = 6 /\ ret[1] = 252 /\ ret[2] = 35
    /\ UnpackU32At(ret, 3) # crc_function(Padded(GivenBinary))

\* C7: a CRC reply that differs from the local CRC ends the operation with
\* False, with the CRC request the last command sent and no erase-page.
C7_CrcMismatchFails ==
    (Writing /\ CrcMismatch) =>
        /\ pc = "idle" /\ result = "False"
        /\ IsCrc(log[Len(log)])
        /\ Len(CrcsSent) = 1
        /\ ErasesSent = <<>>
        /\ Len(WritesSent) = RoundedUp(Len(GivenBinary)) \div 512

C7_Witness ==
    /\ op = "append" /\ CrcMismatch /\ result = "False" /\ Len(WritesSent) = 2

\* ------------------------------------------------------------------------
\* C8: the CRC request of flash, append and replace covers the bytes just
\* written: it starts at the address of the first page written and its
\* length is the number of pages written times 512, the length of the
\* padded binary; the local CRC is that of the padded binary.
\* ------------------------------------------------------------------------
\* C8: the CRC request starts at the first page written and is as long as
\* the pages written, which is the padded binary.
C8_CrcCoversWrittenBytes ==
    (Writing /\ Len(CrcsSent) > 0) =>
        LET w == WritesSent
            c == CrcsSent[1]
        IN  /\ Len(CrcsSent) = 1
            /\ Len(w) > 0 => c.addr = w[1].addr
            /\ c.addr = start_address
            /\ c.len = Len(w) * 512
            /\ c.len = RoundedUp(Len(GivenBinary))
            /\ (pc \in {"erase", "exit"} \/ result \in {"True", "False"})
                  => crc_loader = crc_function(Padded(GivenBinary))

C8_Witness ==
    /\ op = "replace" /\ result = "True" /\ walked = 1
    /\ Len(WritesSent) = 2 /\ Len(CrcsSent) = 1
    /\ CrcsSent[1].addr = WritesSent[1].addr
    /\ CrcsSent[1].addr > address /\ CrcsSent[1].len = 1024

\* ------------------------------------------------------------------------
\* C9: when append_binary's walk reads a header whose version is none of
\* 1, 0 and 0xFFFFFFFF: without force it returns False and has sent no
\* write-page and no erase-page; with force it takes the header for the end
\* of the chain and writes the binary from that slot's address on.
\* ------------------------------------------------------------------------
UnknownVersionMet ==
    /\ op = "append" /\ Len(ReadsSent) > 0 /\ ~atbfh.raised
    /\ atbfh.version \notin {<<1, 0>>, <<0, 0>>, <<65535, 65535>>}

\* C9: an unknown header version fails append_binary without force before
\* anything is written, and with force is where the binary is written.
C9_UnknownHeader ==
    UnknownVersionMet =>
        LET slot == ReadsSent[Len(ReadsSent)].addr
            w == WritesSent
        IN  /\ ~force =>
                 /\ pc = "idle" /\ result = "False"
                 /\ w = <<>> /\ ErasesSent = <<>>
            /\ force =>
                 /\ pc # "walk" /\ start_address = slot
                 /\ \A k \in 1..Len(w) : w[k].addr = slot + (k - 1) * 512
                 /\ (pc \in {"crc", "erase", "exit"} \/ result = "True")
                       => Len(w) = RoundedUp(Len(GivenBinary)) \div 512

\* S4 with force: version 2 at the third slot, the binary written there.
C9_Witness ==
    /\ UnknownVersionMet /\ force /\ result = "True" /\ walked = 2
    /\ Len(WritesSent) = 2
    /\ WritesSent[1].addr = ReadsSent[3].addr

\* ------------------------------------------------------------------------
\* C10: append_binary writes the binary at the end-of-chain cursor: the
\* address plus the total_size of every version-1 header of the run read
\* from the address on, each read at the cursor the previous one left; the
\* first page goes to that cursor and the erase to the cursor plus the
\* length of the padded binary.
\* ------------------------------------------------------------------------
RECURSIVE SizesUpTo(_, _)
\* The sum of the total_size of the first k apps met.
SizesUpTo(met, k) == IF k = 0 THEN 0 ELSE SizesUpTo(met, k - 1) + met[k].total_size

\* C10: append_binary reads each header at the running sum of the sizes met,
\* writes from that sum on and erases the page after the padded binary.
C10_AppendAtEndOfChain ==
    op = "append" =>
        LET cursor == address + SizesUpTo(apps, Len(apps))
            r == ReadsSent
            w == WritesSent
        IN  /\ \A k \in 1..Len(r) :
                 r[k].addr = address + SizesUpTo(apps, k - 1) /\ r[k].len = 76
            /\ \A k \in 1..Len(apps) : apps[k].flash_address = r[k].addr
            /\ pc = "walk" => (Len(r) = Len(apps) /\ start_address = cursor)
            /\ pc \in {"flash", "crc", "erase", "exit"} =>
                 /\ Len(r) = Len(apps) + 1
                 /\ atbfh.version # <<1, 0>>
                 /\ start_address = cursor
            /\ \A k \in 1..Len(w) : w[k].addr = cursor + (k - 1) * 512
            /\ \A k \in 1..Len(ErasesSent) :
                 ErasesSent[k].addr = cursor + RoundedUp(Len(GivenBinary))
            /\ result = "True" =>
                 /\ Len(w) = RoundedUp(Len(GivenBinary)) \div 512
                 /\ Len(ErasesSent) = 1

C10_Witness ==
    /\ op = "append" /\ result = "True" /\ address = 196608
    /\ Len(apps) = 2 /\ apps[1].total_size = 512 /\ apps[2].total_size = 1024
    /\ Len(WritesSent) = 2 /\ WritesSent[1].addr = 196608 + 1536
    /\ ErasesSent[1].addr = 196608 + 1536 + 1024

\* ------------------------------------------------------------------------
\* C11: replace_binary stops at the first installed app whose name is the
\* one the binary's header declares; when the sizes agree the binary's pages
\* go to that app's flash address, the CRC is asked over that range, and the
\* operation returns True unless a page or the CRC is refused; no app behind
\* the match is read.
\* ------------------------------------------------------------------------
\* The name and total_size the header of the given binary declares.
DeclaredName ==
    LET b == Padded(GivenBinary)
        h == _parse_tbf_header(b)
    IN  Slice(b, WordValue(h.package_name_offset),
              WordValue(h.package_name_offset) + WordValue(h.package_name_size))

DeclaredSize == WordValue(_parse_tbf_header(Padded(GivenBinary)).total_size)

\* replace_binary has met an installed app of the declared name.
NameMatched ==
    /\ op = "replace" /\ Len(names) > 0
    /\ names[Len(names)] = DeclaredName

\* The reply to the CRC request that carries the CRC of the padded binary.
GoodCrcReply ==
    <<ESCAPE_CHAR, RESPONSE_CRC_INTERNAL_FLASH>>
        \o WordBytes(crc_function(Padded(GivenBinary)))

\* C11: see above; the match is the last app read, its address is where the
\* pages and the CRC go, and only a refused page or CRC keeps it from True.
C11_ReplaceInPlace ==
    op = "replace" =>
        /\ Len(names) <= Len(apps) /\ Len(apps) <= Len(names) + 1
        /\ Len(names) > 0 => (new_name = DeclaredName /\ WordValue(new_total_size) = DeclaredSize)
        /\ \A k \in 1..(Len(names) - 1) : names[k] # DeclaredName
        /\ NameMatched =>
            LET m == apps[Len(names)]
            IN  /\ Len(apps) = Len(names)
                /\ \A k \in 1..Len(ReadsSent) :
                     ReadsSent[k].addr < m.flash_address + m.total_size
                /\ m.total_size = DeclaredSize =>
                     /\ pc \in {"flash", "crc", "exit", "idle"}
                     /\ start_address = m.flash_address
                     /\ \A k \in 1..Len(WritesSent) :
                          WritesSent[k].addr = m.flash_address + (k - 1) * 512
                     /\ \A k \in 1..Len(CrcsSent) :
                          /\ CrcsSent[k].addr = m.flash_address
                          /\ CrcsSent[k].len = RoundedUp(Len(GivenBinary))
                     /\ ErasesSent = <<>>
                     /\ result = "True" =>
                          /\ Len(WritesSent) = RoundedUp(Len(GivenBinary)) \div 512
                          /\ Len(CrcsSent) = 1 /\ ret = GoodCrcReply
                     /\ (pc = "idle" /\ result # "True") =>
                          \/ IsWritePage(log[Len(log)]) /\ ret # <<ESCAPE_CHAR, RESPONSE_OK>>
                          \/ IsCrc(log[Len(log)]) /\ ret # GoodCrcReply

\* S5: the second installed app has the name and the size; it is overwritten.
C11_Witness ==
    /\ NameMatched /\ result = "True" /\ Len(names) = 2
    /\ names[1] # DeclaredName
    /\ apps[2].total_size = DeclaredSize
    /\ Len(WritesSent) = 2 /\ WritesSent[1].addr = apps[2].flash_address
    /\ CrcsSent[1].addr = apps[2].flash_address

\* ------------------------------------------------------------------------
\* C12: when the first installed app of the declared name has another
\* total_size than the binary's header, replace_binary returns False and
\* has sent no write-page at any point.
\* ------------------------------------------------------------------------
SizeMismatched ==
    NameMatched /\ apps[Len(names)].total_size # DeclaredSize

\* C12: a size mismatch on the matching app is False with nothing written.
C12_ReplaceSizeMismatch ==
    SizeMismatched =>
        /\ pc = "idle" /\ result = "False"
        /\ WritesSent = <<>> /\ CrcsSent = <<>> /\ ErasesSent = <<>>
        /\ \A k \in 1..Len(log) : ~IsExit(log[k])

\* S6: the installed app of the name is 1024 bytes, the image declares 512.
C12_Witness ==
    /\ SizeMismatched /\ result = "False" /\ Len(names) = 2
    /\ apps[2].total_size = 1024 /\ DeclaredSize = 512

\* ------------------------------------------------------------------------
\* C13: when replace_binary's walk reads a header that is not of version 1
\* and no app before it had the declared name, it returns False and has
\* sent no write-page and no erase-page.
\* ------------------------------------------------------------------------
EndOfChainMet ==
    /\ op = "replace" /\ Len(ReadsSent) > 0 /\ ~atbfh.raised
    /\ atbfh.version # <<1, 0>>

\* C13: the end of the chain without a match is False with nothing written.
C13_ReplaceNotFound ==
    EndOfChainMet =>
        /\ pc = "idle" /\ result = "False"
        /\ \A k \in 1..Len(names) : names[k] # DeclaredName
        /\ Len(apps) = Len(names)
        /\ WritesSent = <<>> /\ ErasesSent = <<>> /\ CrcsSent = <<>>

\* Two installed apps of other names, then erased flash.
C13_Witness ==
    /\ EndOfChainMet /\ result = "False" /\ Len(names) = 2
    /\ atbfh.version = <<65535, 65535>>
    /\ WritesSent = <<>> /\ Len(ReadsSent) >= 3

\* ------------------------------------------------------------------------
\* C14: list_apps reports the version-1 headers it reads from the address
\* on, in order, the k-th at the address plus the sizes of those before it
\* and ending at start + total_size - 1; it reports that no apps are
\* flashed exactly when the first header read is of version 0 or 0xFFFFFFFF;
\* and it runs the exit sequence after the walk, ended by the end of the
\* chain or by an unknown version.
\* ------------------------------------------------------------------------
IsAppReport(e) == e.what = "app"
IsNoApps(e) == e.what = "no_apps"

\* list_apps has parsed a header that ends its walk.
ListWalkEnded ==
    /\ op = "list" /\ Len(ReadsSent) > 0 /\ ~atbfh.raised
    /\ atbfh.version # <<1, 0>>

\* C14: the entries are the apps met, where the walk met them; "no apps" is
\* the first header being the end of the chain; the walk's end is the exit.
C14_ListReport ==
    op = "list" =>
        LET entries == SelectSeq(printed, IsAppReport)
        IN  /\ Len(entries) <= Len(apps) /\ Len(apps) <= Len(entries) + 1
            /\ \A k \in 1..Len(entries) :
                 /\ entries[k].index = k - 1
                 /\ entries[k].first = address + SizesUpTo(apps, k - 1)
                 /\ entries[k].first = apps[k].flash_address
                 /\ entries[k].last = entries[k].first + apps[k].total_size - 1
                 /\ entries[k].name = names[k]
            /\ ListWalkEnded => Len(entries) = Len(apps)
            /\ (\E k \in 1..Len(printed) : IsNoApps(printed[k]))
                 <=> /\ ListWalkEnded /\ Len(ReadsSent) = 1
                     /\ atbfh.version \in {<<0, 0>>, <<65535, 65535>>}
            /\ ListWalkEnded =>
                 \/ pc = "exit"
                 \/ pc = "idle" /\ result = "True" /\ IsExit(log[Len(log)])
            /\ result = "True" => ListWalkEnded

\* Two apps are reported, then a header of version 2 ends the walk.
C14_Witness ==
    /\ ListWalkEnded /\ result = "True" /\ atbfh.version = <<2, 0>>
    /\ Len(printed) = 3 /\ IsAppReport(printed[1]) /\ IsAppReport(printed[2])
    /\ printed[2].first = address + apps[1].total_size
    /\ printed[2].last = printed[2].first + 1023
    /\ IsExit(log[Len(log)])

\* ------------------------------------------------------------------------
\* A board with a valid chain of apps in its app region
\* ------------------------------------------------------------------------
\* The app region is RegionPages pages from the address of the operation on.
RegionPages == 4
RegionSize == RegionPages * PAGE_SIZE

\* Where the chain the walk has read so far ends: the address plus the
\* total_size of the apps met.
ChainCursor == address + SizesUpTo(apps, Len(apps))

\* What the board with a valid chain answers to the read of a header at
\* cursor. The chain shows as it is read: at the end of the apps read so far
\* there is the terminator (version 0 or 0xFFFFFFFF) or one more app, of a
\* positive multiple of 512 bytes that leaves the header after it inside the
\* region. Anywhere else the bytes are not a header of the chain: erased
\* flash, or inside the region bytes that read as a version-1 header.
ChainHeaderReplies(cursor) ==
    LET ok == <<ESCAPE_CHAR, RESPONSE_READ_RANGE>>
        terminators == { ok \o Repeat(255, HEADER_LENGTH), ok \o Repeat(0, HEADER_LENGTH) }
        live == { ok \o HeaderBytes(Word(1), sz, HEADER_LENGTH, ns) :
                     sz \in {z \in InstalledSizes : cursor + z < address + RegionSize},
                     ns \in {0, 1} }
        stray == IF cursor >= address /\ cursor < address + RegionSize
                 THEN { ok \o Repeat(255, HEADER_LENGTH),
                        ok \o HeaderBytes(Word(1), PAGE_SIZE, HEADER_LENGTH, 0) }
                 ELSE { ok \o Repeat(255, HEADER_LENGTH) }
    IN  IF cursor = ChainCursor THEN terminators \cup live ELSE stray

append_walk_chain == AppendWalk(ChainHeaderReplies(start_address))
replace_walk_chain == ReplaceWalk(ChainHeaderReplies(start_address))
list_walk_chain == ListWalk(ChainHeaderReplies(start_address))

\* The operations on that board.
WalkNext ==
    \/ flash_binary
    \/ append_binary
    \/ replace_binary
    \/ list_apps
    \/ _toggle_bootloader_entry
    \/ _ping_bootloader_and_wait_for_response
    \/ _enter_bootloader_mode
    \/ pad_binary
    \/ replace_parse
    \/ append_walk_chain
    \/ replace_walk_chain
    \/ replace_name
    \/ list_walk_chain
    \/ list_name
    \/ _flash_binary
    \/ _check_crc
    \/ _erase_page
    \/ _exit_bootloader_mode

\* One step of a walk loop on that board.
WalkStep ==
    \/ append_walk_chain
    \/ replace_walk_chain
    \/ replace_name
    \/ list_walk_chain
    \/ list_name

\* A walk loop that can take a step takes it: the loops do not wait for
\* anything but the reads, which time out.
WalkSpec == Init /\ [][WalkNext]_vars /\ WF_vars(WalkStep)

\* ------------------------------------------------------------------------
\* C15: on a valid chain (version-1 headers of a positive multiple of 512
\* bytes, ended inside the app region by a header of version 0 or
\* 0xFFFFFFFF) the header walk of list, append and replace stops, and it has
\* read at most region size / 512 headers.
\* ------------------------------------------------------------------------
IsHeaderRead(e) == IsReadRange(e) /\ e.len = HEADER_LENGTH
HeaderReads == SelectSeq(log, IsHeaderRead)

\* The operation is in its walk loop.
Walking == pc \in {"walk", "name"}

WalkBounded ==
    /\ Len(HeaderReads) <= RegionSize \div PAGE_SIZE
    /\ \A k \in 1..Len(HeaderReads) :
         /\ HeaderReads[k].addr >= address
         /\ HeaderReads[k].addr < address + RegionSize
    /\ Len(HeaderReads) <= Len(apps) + 1

\* C15: the walk reads no more headers than the region has pages, all of
\* them inside the region, and a walk that began comes to its end.
C15_WalkTerminates ==
    /\ [](WalkBounded)
    /\ (Walking ~> ~Walking)

\* Three apps of 512 bytes and the terminator in the last page: four reads.
C15_Witness ==
    /\ op = "list" /\ result = "True" /\ Len(apps) = 3
    /\ Len(HeaderReads) = RegionPages
    /\ HeaderReads[4].addr = address + RegionSize - PAGE_SIZE
    /\ atbfh.version = <<65535, 65535>>

\* ------------------------------------------------------------------------
\* C16: every frame of the generic command issuer (read-range, erase-page,
\* CRC) has each 0xFC byte of its payload doubled before the terminator.
\* ------------------------------------------------------------------------
\* The payload and the command byte of the issued command e of the log.
IsIssued(e) == IsReadRange(e) \/ IsErasePage(e) \/ IsCrc(e)

IssuedMessage(e) ==
    IF IsReadRange(e) THEN ReadRangeMessage(e.addr, e.len)
    ELSE IF IsErasePage(e) THEN ErasePageMessage(e.addr)
    ELSE CrcMessage(e.addr, e.len)

IssuedCommand(e) ==
    IF IsReadRange(e) THEN COMMAND_READ_RANGE
    ELSE IF IsErasePage(e) THEN COMMAND_ERASE_PAGE
    ELSE COMMAND_CRC_INTERNAL_FLASH

\* C16: the frame written last for a read-range, erase-page or CRC request
\* is the escaped payload and the terminator.
C16_IssuedFramesEscaped ==
    (Len(log) > 0 /\ IsIssued(log[Len(log)])) =>
        LET e == log[Len(log)]
        IN  pkt = Escape(IssuedMessage(e)) \o <<ESCAPE_CHAR, IssuedCommand(e)>>

\* What is written: the payload as it is, and the terminator.
C16_IssuedFramesRaw ==
    (Len(log) > 0 /\ IsIssued(log[Len(log)])) =>
        LET e == log[Len(log)]
        IN  pkt = IssuedMessage(e) \o <<ESCAPE_CHAR, IssuedCommand(e)>>

\* ------------------------------------------------------------------------
\* C17: the escaping of a write-page body doubles each 0xFC byte and
\* nothing else: the escaped page is 512 + (number of 0xFC bytes) long, the
\* byte at page offset k is found behind the doubled bytes before it, a
\* 0xFC as 0xFC 0xFC, and halving the pairs gives the page back.
\* ------------------------------------------------------------------------
RECURSIVE UnescapeFrom(_, _, _)
\* Every pair 0xFC 0xFC of s[k..hi] becomes one 0xFC, left to right.
UnescapeFrom(s, k, hi) ==
    IF k > hi THEN <<>>
    ELSE IF s[k] = ESCAPE_CHAR /\ k < hi /\ s[k + 1] = ESCAPE_CHAR
         THEN <<ESCAPE_CHAR>> \o UnescapeFrom(s, k + 2, hi)
    ELSE <<s[k]>> \o UnescapeFrom(s, k + 1, hi)

RECURSIVE LastPlainByte(_, _, _)
\* The last index in lo..m of a byte of s that is not 0xFC, or lo - 1: no
\* pair begins there, so the scan can be cut behind it.
LastPlainByte(s, lo, m) ==
    IF m < lo THEN lo - 1
    ELSE IF s[m] # ESCAPE_CHAR THEN m
    ELSE LastPlainByte(s, lo, m - 1)

RECURSIVE UnescapeRange(_, _, _)
\* The same scan, cut in two behind a byte that is not 0xFC.
UnescapeRange(s, lo, hi) ==
    IF hi - lo < 16 THEN UnescapeFrom(s, lo, hi)
    ELSE LET m == LastPlainByte(s, lo, (lo + hi) \div 2)
         IN  IF m < lo THEN UnescapeFrom(s, lo, hi)
             ELSE UnescapeRange(s, lo, m) \o UnescapeRange(s, m + 1, hi)

Unescape(s) == UnescapeRange(s, 1, Len(s))

\* The page the last write-page command carries, and its bytes in the frame:
\* what stands between the escaped address and the terminator.
LastPageWritten ==
    LET n == Len(WritesSent)
    IN  Slice(Padded(GivenBinary), (n - 1) * PAGE_SIZE, n * PAGE_SIZE)

LastPageEscaped ==
    LET head == Escape(PackU32(WritesSent[Len(WritesSent)].addr))
    IN  SubSeq(pkt, Len(head) + 1, Len(pkt) - 2)

PageJustWritten == Len(log) > 0 /\ IsWritePage(log[Len(log)])

\* C17: see above, for the frame of every page written.
C17_PageEscaping ==
    PageJustWritten =>
        LET pg  == LastPageWritten
            esc == LastPageEscaped
            at  == {k \in 1..Len(pg) : pg[k] = ESCAPE_CHAR}
            pos(k) == k + Cardinality({j \in at : j < k})
        IN  /\ Len(pg) = PAGE_SIZE
            /\ Len(esc) = PAGE_SIZE + Cardinality(at)
            /\ \A k \in 1..PAGE_SIZE : esc[pos(k)] = pg[k]
            /\ \A k \in at : esc[pos(k) + 1] = ESCAPE_CHAR
            /\ Unescape(esc) = pg
            /\ SubSeq(pkt, Len(pkt) - 1, Len(pkt)) = <<ESCAPE_CHAR, COMMAND_WRITE_PAGE>>

\* The page with escape bytes at offsets 0, 1, 99 and 511 is written: 516
\* bytes, the first four of them 0xFC.
C17_Witness ==
    /\ PageJustWritten /\ LastPageWritten = EscapePage
    /\ Len(LastPageEscaped) = PAGE_SIZE + 4
    /\ SubSeq(LastPageEscaped, 1, 5) = <<252, 252, 252, 252, 9>>
    /\ LastPageEscaped[PAGE_SIZE + 3] = 252 /\ LastPageEscaped[PAGE_SIZE + 4] = 252

\* ------------------------------------------------------------------------
\* C18: _issue_command succeeds exactly when it read 2 + N bytes that begin
\* with 0xFC and the expected response code, and then returns the N bytes
\* behind them; on any other read, a short or empty one too, it returns
\* failure with the two header bytes, and its callers read the response
\* code out of them without raising.
\* ------------------------------------------------------------------------
\* response_len and response_code of the issued command e of the log.
IssuedResponseLen(e) ==
    IF IsReadRange(e) THEN e.len ELSE IF IsErasePage(e) THEN 0 ELSE 4

IssuedResponseCode(e) ==
    IF IsReadRange(e) THEN RESPONSE_READ_RANGE
    ELSE IF IsErasePage(e) THEN RESPONSE_OK
    ELSE RESPONSE_CRC_INTERNAL_FLASH

\* What _issue_command returned for the command issued last.
LastIssueResult ==
    IssueCommand(ret, IssuedResponseLen(log[Len(log)]), IssuedResponseCode(log[Len(log)]))

WholeReply(e) ==
    /\ Len(ret) = 2 + IssuedResponseLen(e)
    /\ ret[1] = ESCAPE_CHAR /\ ret[2] = IssuedResponseCode(e)

\* C18: success is the whole reply with the data behind the header; failure
\* carries two header bytes and no caller raises IndexError on them.
C18_DecoderReportsHeader ==
    (Len(log) > 0 /\ IsIssued(log[Len(log)])) =>
        LET r == LastIssueResult
        IN  /\ r.success <=> WholeReply(log[Len(log)])
            /\ r.success => r.data = SubSeq(ret, 3, Len(ret))
            /\ ~r.success => Len(r.data) = 2
            /\ result # "IndexError"

\* What the code does: the header bytes when two were read, nothing when
\* fewer were, and then _erase_page and _get_crc_internal_flash raise.
C18_DecoderOnShortRead ==
    (Len(log) > 0 /\ IsIssued(log[Len(log)])) =>
        LET r == LastIssueResult
        IN  /\ r.success <=> WholeReply(log[Len(log)])
            /\ r.success => r.data = SubSeq(ret, 3, Len(ret))
            /\ (~r.success /\ Len(ret) >= 2) => r.data = SubSeq(ret, 1, 2)
            /\ (~r.success /\ Len(ret) < 2) => r.data = <<>>
            /\ result = "IndexError" =>
                 (Len(ret) < 2 /\ ~IsReadRange(log[Len(log)]))

\* ------------------------------------------------------------------------
\* C19: get_binary(a) returns None exactly when the TabApp has no pair
\* that is not compiled for a fixed address and no pair whose first fixed
\* flash address minus its header size is a.
\* ------------------------------------------------------------------------
\* Pair k is position independent, or fixed with its header landing on addr.
FitsAddress(k, addr) ==
    \/ ~tbfs[k].fixed
    \/ tbfs[k].fixed /\ tbfs[k].flash - tbfs[k].header_size = addr

\* C19: None is returned if and only if no pair fits the address.
C19_GetBinaryNone ==
    tab_call.method = "get_binary" =>
        (tab_result.kind = "None"
            <=> ~ \E k \in 1..Len(tbfs) : FitsAddress(k, tab_call.arg))

\* Two pairs fixed for other addresses: None for 256 although one of them
\* fits 512.
C19_Witness ==
    /\ tab_call = [method |-> "get_binary", arg |-> 256]
    /\ tab_result.kind = "None" /\ Len(tbfs) = 2
    /\ tbfs[1].fixed /\ tbfs[2].fixed
    /\ FitsAddress(2, 512)

\* ------------------------------------------------------------------------
\* C20: set_size(n) returns without raising exactly when n is at least the
\* header size plus the app binary's length of every pair, and then every
\* pair's total size is n.
\* ------------------------------------------------------------------------
\* C20: see above.
C20_SetSizeSucceeds ==
    tab_call.method = "set_size" =>
        LET n == tab_call.arg
        IN  /\ tab_result.kind = "returned"
                 <=> \A k \in 1..Len(tbfs) : n >= tbfs[k].header_size + tbfs[k].payload
            /\ tab_result.kind \in {"returned", "Cannot make app smaller"}
            /\ tab_result.kind = "returned"
                 => \A k \in 1..Len(tbfs) : tbfs[k].app_size = n

\* Two pairs, one of 16 + 40 bytes, are set to 64 bytes.
C20_Witness ==
    /\ tab_call = [method |-> "set_size", arg |-> 64]
    /\ tab_result.kind = "returned" /\ Len(tbfs) = 2
    /\ tbfs[1].header_size + tbfs[1].payload = 56
    /\ tbfs[1].app_size = 64 /\ tbfs[2].app_size = 64

\* ------------------------------------------------------------------------
\* flash_binary run again on the same board
\* ------------------------------------------------------------------------
\* How many times flash_binary is run on the board.
MaxCalls == 2

\* tockloader flash is run again with the same binary and address: a new
\* TockLoader, the board's flash as the run before left it.
flash_binary_again ==
    /\ pc = "idle" /\ op = "flash" /\ Len(history) + 1 < MaxCalls
    /\ history' = Append(history, [result |-> result, flash |-> flash])
    /\ binary' = InputBinaries[input]
    /\ pc' = "toggle" /\ alive' = FALSE /\ entered' = FALSE /\ i' = 0
    /\ ret' = <<>> /\ pkt' = <<>> /\ start_address' = address /\ walked' = 0
    /\ atbfh' = NoHeader /\ apps' = <<>> /\ names' = <<>>
    /\ new_name' = <<>> /\ new_total_size' = <<0, 0>>
    /\ page' = 0 /\ crc_loader' = <<0, 0>> /\ log' = <<>> /\ printed' = <<>>
    /\ result' = "none"
    /\ UNCHANGED <<tabvars, linkvars, flash, op, input, address, force>>

ReflashNext ==
    \/ flash_binary
    \/ flash_binary_again
    \/ _toggle_bootloader_entry
    \/ _ping_bootloader_and_wait_for_response
    \/ _enter_bootloader_mode
    \/ pad_binary
    \/ _flash_binary
    \/ _check_crc
    \/ _erase_page
    \/ _exit_bootloader_mode

ReflashSpec == Init /\ [][ReflashNext]_vars

\* ------------------------------------------------------------------------
\* C21: whatever the flash held before, also what an interrupted flash left,
\* a flash_binary that returns True leaves the padded binary in the pages
\* from the address on, and a second flash_binary that returns True leaves
\* the flash as the first left it.
\* ------------------------------------------------------------------------
\* The pages from the address on hold the padded binary.
RangeHoldsBinary ==
    \A k \in 0..(RoundedUp(Len(GivenBinary)) \div PAGE_SIZE - 1) :
        PageAt(flash, address + k * PAGE_SIZE)
            = Slice(Padded(GivenBinary), k * PAGE_SIZE, (k + 1) * PAGE_SIZE)

\* The flash holds what the flash f holds.
SameFlash(f) ==
    \A a \in DOMAIN flash \cup DOMAIN f : PageAt(flash, a) = PageAt(f, a)

FlashSucceeded == op = "flash" /\ pc = "idle" /\ result = "True"

\* C21: success leaves the binary in its range, and success after success
\* leaves the flash unchanged.
C21_ReflashIdempotent ==
    FlashSucceeded =>
        /\ RangeHoldsBinary
        /\ (Len(history) > 0 /\ history[Len(history)].result = "True")
              => SameFlash(history[Len(history)].flash)

\* What holds: the range after any success, and the whole flash after a
\* success that follows a run whose erase-page was acknowledged.
C21_RangeAfterSuccess ==
    FlashSucceeded =>
        /\ RangeHoldsBinary
        /\ ( /\ Len(history) > 0 /\ history[Len(history)].result = "True"
             /\ PageAt(history[Len(history)].flash,
                       address + RoundedUp(Len(GivenBinary))) = ERASED_PAGE
             /\ PageAt(flash, address + RoundedUp(Len(GivenBinary))) = ERASED_PAGE )
              => SameFlash(history[Len(history)].flash)

\* ------------------------------------------------------------------------
\* C22: flash_binary and append_binary return True only if every command,
\* the final erase-page included, got its expected response; an erase-page
\* answered with BADADDR, BADARGS or INTERROR, or not answered, makes the
\* operation return False.
\* ------------------------------------------------------------------------
\* The operation is through its erase-page; ret is what was read for it (the
\* exit sequence reads nothing).
EraseAnswered ==
    /\ op \in {"flash", "append"}
    /\ Len(ErasesSent) = 1
    /\ pc \in {"exit", "idle"}

EraseRefused == EraseAnswered /\ ret # <<ESCAPE_CHAR, RESPONSE_OK>>

\* C22: an operation that returned True had its erase-page acknowledged, and
\* one whose erase-page was refused or not answered returns False.
C22_EraseErrorFails ==
    /\ (Returned /\ op \in {"flash", "append"} /\ result = "True")
          => ret = <<ESCAPE_CHAR, RESPONSE_OK>>
    /\ (Returned /\ EraseRefused) => result = "False"

\* What holds: every command before the erase-page of an operation that
\* returned True was acknowledged, a refused erase-page is followed by the
\* exit sequence and True, an unanswered one by IndexError.
C22_EraseResultDropped ==
    /\ (Returned /\ op \in {"flash", "append"} /\ result = "True")
          => /\ Len(ErasesSent) = 1 /\ Len(CrcsSent) = 1
             /\ Len(WritesSent) = RoundedUp(Len(GivenBinary)) \div PAGE_SIZE
    /\ (Returned /\ EraseRefused /\ Len(ret) = 2) => result = "True"
    /\ (Returned /\ EraseRefused /\ Len(ret) < 2) => result = "IndexError"

\* ------------------------------------------------------------------------
\* flash_binary over a serial line that keeps what was not read
\* ------------------------------------------------------------------------
\* The port is opened with a read timeout (sp.timeout = 0.5) and its input
\* is never discarded: sp.read(n) returns n bytes as soon as they are there,
\* or at the timeout the fewer that are; bytes that arrive later stay in the
\* port for the next sp.read().
Min(a, b) == IF a < b THEN a ELSE b

\* The bytes the board sends for the request id, each with that request, and
\* the plain bytes of such a sequence.
Tagged(bytes, id) == [k \in 1..Len(bytes) |-> <<bytes[k], id>>]
Bytes(tagged) == [k \in 1..Len(tagged) |-> tagged[k][1]]

\* sp.read(n) on a line of which the first arrived bytes are there before
\* the timeout: what it returns, and what is left on the line.
SerialRead(line, n, arrived) ==
    LET count == Min(n, Min(arrived, Len(line)))
    IN  [read |-> SubSeq(line, 1, count), left |-> SubSeq(line, count + 1, Len(line))]

\* What the bootloader sends: to a ping nothing while it is not up, or the
\* pong; to a write-page and an erase-page the acknowledgement or a refusal;
\* to a CRC request the CRC in 4 bytes, or in 6 (the bootloader version with
\* that bug), or a refusal.
LinePingAnswers == { <<>>, <<ESCAPE_CHAR, RESPONSE_PONG>> }
LinePageAnswers == { <<ESCAPE_CHAR, RESPONSE_OK>>, <<ESCAPE_CHAR, RESPONSE_BADADDR>> }
LineCrcAnswers(crc) ==
    LET ok == <<ESCAPE_CHAR, RESPONSE_CRC_INTERNAL_FLASH>>
    IN  { ok \o WordBytes(crc), ok \o WordBytes(crc) \o <<0, 0>>,
          <<ESCAPE_CHAR, RESPONSE_BADADDR>> }

\* A command frame is written and one sp.read(n) follows: the board sends
\* answer, of which timely bytes are there before the read returns.
Exchange(answer, n, timely) ==
    SerialRead(pending \o Tagged(answer, request + 1), n, Len(pending) + timely)

\* The line after the frame was written and the read x returned.
LineAfter(x, answer, timely) ==
    /\ request' = request + 1
    /\ stale' = pending
    /\ got' = x.read
    /\ pending' = x.left
    /\ late' = (late \/ timely < Len(answer))

\* One round of the ping loop: sp.write(ping_pkt); ret = sp.read(2).
ping_on_line ==
    \E answer \in LinePingAnswers : \E timely \in 0..Len(answer) :
        LET x == Exchange(answer, 2, timely)
        IN  PingRound(Bytes(x.read)) /\ LineAfter(x, answer, timely)

\* One page of _flash_binary: sp.write(pkt); ret = sp.read(2).
flash_on_line ==
    \/ PagesDone /\ UNCHANGED linkvars
    \/ \E answer \in LinePageAnswers : \E timely \in 0..Len(answer) :
        LET x == Exchange(answer, 2, timely)
        IN  FlashPage(Bytes(x.read), answer) /\ LineAfter(x, answer, timely)

\* _get_crc_internal_flash: _issue_command reads 2 + 4 bytes, then
\* self.sp.read(2) takes the two more bytes of a 6-byte CRC.
crc_on_line ==
    /\ pc = "crc"
    /\ \E answer \in LineCrcAnswers(crc_function(binary)) :
        \E timely \in 0..Len(answer) : \E by_second_read \in timely..Len(answer) :
            LET x == Exchange(answer, 2 + 4, timely)
                more == SerialRead(x.left, 2,
                                   Len(pending) + by_second_read - Len(x.read))
            IN  /\ CheckCrc(Bytes(x.read))
                /\ request' = request + 1
                /\ stale' = pending
                /\ got' = x.read \o more.read
                /\ pending' = more.left
                /\ late' = (late \/ timely < Min(2 + 4, Len(answer))
                                 \/ by_second_read < Len(answer))

\* _erase_page: _issue_command reads 2 bytes.
erase_on_line ==
    \E answer \in LinePageAnswers : \E timely \in 0..Len(answer) :
        LET x == Exchange(answer, 2, timely)
        IN  ErasePage(Bytes(x.read), answer) /\ LineAfter(x, answer, timely)

LineNext ==
    \/ flash_binary
    \/ _toggle_bootloader_entry
    \/ ping_on_line
    \/ _enter_bootloader_mode
    \/ pad_binary
    \/ flash_on_line
    \/ crc_on_line
    \/ erase_on_line
    \/ _exit_bootloader_mode

LineSpec == Init /\ [][LineNext]_vars

\* ------------------------------------------------------------------------
\* C23: requests and responses alternate strictly: when a command frame is
\* written every byte the bootloader sent before has been read, and a read
\* returns only bytes sent for the command it follows, also after a read
\* that timed out short in the ping loop and after a CRC reply of 6 bytes.
\* ------------------------------------------------------------------------
\* Nothing was left unread when the last frame was written.
NothingStale == stale = <<>>

\* The reads for the last command returned bytes sent for it only.
OwnReply == \A k \in 1..Len(got) : got[k][2] = request

\* C23: no frame is written over unread bytes and no read returns the bytes
\* of an earlier command.
C23_StrictAlternation == NothingStale /\ OwnReply

\* What holds: the same while every byte arrived before the read for its
\* command returned, with the 6-byte CRC taken by the second read.
C23_AlternationWhenTimely == ~late => (NothingStale /\ OwnReply /\ pending = <<>>)

\* ------------------------------------------------------------------------
\* C24: get_binary(a) gives the header bytes followed by the app binary's
\* bytes of the first pair, in the order of tbfs, that is not compiled for a
\* fixed address or whose first fixed flash address minus its header size is
\* a; no later pair is taken, so a position-independent pair before a
\* fitting fixed one wins for every a.
\* ------------------------------------------------------------------------
\* The first pair that fits addr (there is one).
FirstFitting(addr) ==
    CHOOSE k \in 1..Len(tbfs) :
        FitsAddress(k, addr) /\ \A j \in 1..(k - 1) : ~FitsAddress(j, addr)

\* C24: the bytes returned are those of the first fitting pair, header
\* first, whole or cut to get_size(); they are returned whenever the pairs
\* agree on the size.
C24_FirstVariantWins ==
    (tab_call.method = "get_binary" /\ \E k \in 1..Len(tbfs) : FitsAddress(k, tab_call.arg))
    => LET k == FirstFitting(tab_call.arg)
           whole == tbfs[k].header_size + tbfs[k].payload
       IN  /\ tab_result.kind \in {"bytes", "Different app sizes"}
           /\ Cardinality(app_sizes(tbfs)) = 1 => tab_result.kind = "bytes"
           /\ tab_result.kind = "bytes" =>
                /\ Len(tab_result.bytes) = Min(whole, tab_result.size)
                /\ \A j \in 1..Len(tab_result.bytes) :
                     tab_result.bytes[j] =
                        IF j <= tbfs[k].header_size THEN <<"header", k, j>>
                        ELSE <<"app_binary", k, j - tbfs[k].header_size>>

\* A position-independent pair before a fixed pair that fits the address:
\* the bytes are the first pair's, header and app binary.
C24_Witness ==
    /\ tab_call.method = "get_binary" /\ tab_result.kind = "bytes"
    /\ Len(tbfs) = 2 /\ ~tbfs[1].fixed
    /\ tbfs[2].fixed /\ FitsAddress(2, tab_call.arg)
    /\ tab_result.bytes[1] = <<"header", 1, 1>>
    /\ tab_result.bytes[Len(tab_result.bytes)] = <<"app_binary", 1, tbfs[1].payload>>

\* ------------------------------------------------------------------------
\* C25: set_size only grows: over any sequence of set_size calls no call,
\* returning or raising, leaves a pair with a total size smaller than the
\* one it had before the call.
\* ------------------------------------------------------------------------
\* C25: no step makes the total size of a pair smaller.
C25_GrowthOnly ==
    [][\A k \in 1..Len(tbfs) : tbfs'[k].app_size >= tbfs[k].app_size]_vars

\* What holds: a total size that a step changes is the size asked for and
\* not below the pair's header size plus app binary length.
C25_NotBelowContents ==
    [][\A k \in 1..Len(tbfs) :
          tbfs'[k].app_size # tbfs[k].app_size
            => /\ tab_call'.method = "set_size"
               /\ tbfs'[k].app_size = tab_call'.arg
               /\ tbfs'[k].app_size >= tbfs[k].header_size + tbfs[k].payload]_vars

\* ------------------------------------------------------------------------
\* C26: "every pair has the same total size" is preserved by every mutator:
\* from a TabApp whose pairs agree, after any sequence of set_sticky and
\* set_size calls, those raising 'Cannot make app smaller' included, the
\* pairs still agree and get_size() does not raise; a raising set_size
\* leaves every pair's total size unchanged.
\* ------------------------------------------------------------------------
\* The pairs of a TabApp that has some agree on the total size.
SizesAgree(pairs) == Len(pairs) > 0 /\ Cardinality(app_sizes(pairs)) = 1

\* C26: a step from agreeing pairs leaves them agreeing, get_size() gives a
\* size, and a set_size that raised changed no total size.
C26_SizesStayEqual ==
    [][SizesAgree(tbfs) =>
         /\ SizesAgree(tbfs')
         /\ GetSize(tbfs').kind = "size"
         /\ tab_result'.kind = "Cannot make app smaller"
              => \A k \in 1..Len(tbfs) : tbfs'[k].app_size = tbfs[k].app_size]_vars

\* What holds: set_sticky and a set_size that returned leave the pairs
\* agreeing; a set_size that raised left the pair it raised on, and those
\* behind it, as they were, and gave the size to those before it.
C26_EqualUnlessRaised ==
    [][SizesAgree(tbfs) =>
         /\ tab_result'.kind # "Cannot make app smaller"
              => (SizesAgree(tbfs') /\ GetSize(tbfs').kind = "size")
         /\ tab_result'.kind = "Cannot make app smaller"
              => \E r \in 1..Len(tbfs) :
                   /\ tab_call'.arg < tbfs[r].header_size + tbfs[r].payload
                   /\ \A k \in 1..(r - 1) : tbfs'[k].app_size = tab_call'.arg
                   /\ \A k \in r..Len(tbfs) : tbfs'[k].app_size = tbfs[k].app_size]_vars

\* ------------------------------------------------------------------------
\* C27: an error does not change the client's state: when flash_binary,
\* append_binary or replace_binary fails after the enter succeeded (a page
\* refused, a CRC mismatch, an unknown header without force, a size
\* mismatch, no app of the name) no exit sequence is performed on the way
\* out; the exit sequence is performed on the success path only, once.
\* ------------------------------------------------------------------------
ExitsSent == SelectSeq(log, IsExit)

\* One of the failures of an operation that has entered.
FailedAfterEnter ==
    \/ PageNotAcknowledged /\ PageOutcome(ret) = "False"
    \/ CrcMismatch
    \/ UnknownVersionMet /\ ~force
    \/ SizeMismatched
    \/ EndOfChainMet

\* C27: each of the failures returns False with no exit sequence and the
\* operation still entered; an exit sequence is the last thing of an
\* operation that returned True, and each of those has exactly one.
C27_ExitOnlyOnSuccess ==
    Writing =>
        /\ FailedAfterEnter =>
             (Returned /\ result = "False" /\ entered /\ ExitsSent = <<>>)
        /\ (Returned /\ result # "True") => ExitsSent = <<>>
        /\ Len(ExitsSent) <= 1
        /\ ExitsSent # <<>> =>
             (Returned /\ result = "True" /\ IsExit(log[Len(log)]))
        /\ (Returned /\ result = "True") => Len(ExitsSent) = 1

\* replace_binary wrote its pages over the match and the CRC read differs:
\* it is back with False, entered, and the DTR/RTS lines were not touched.
C27_Witness ==
    /\ op = "replace" /\ Returned /\ result = "False" /\ entered
    /\ CrcMismatch /\ Len(WritesSent) > 0
    /\ ExitsSent = <<>>

\* ------------------------------------------------------------------------
\* C28: replace_binary changes the slot of the app it replaces only: every
\* write-page it sends goes to an address in [m, m + total_size), m the
\* flash address and total_size the total size of the installed app that
\* matched, and it sends no erase-page.
\* ------------------------------------------------------------------------
\* C28: the pages go into the slot of the match, and nothing is erased.
C28_ReplaceInsideSlot ==
    op = "replace" =>
        /\ ErasesSent = <<>>
        /\ WritesSent # <<>> =>
             /\ NameMatched
             /\ LET m == apps[Len(names)]
                IN  \A k \in 1..Len(WritesSent) :
                      /\ m.flash_address <= WritesSent[k].addr
                      /\ WritesSent[k].addr < m.flash_address + m.total_size

\* What holds: nothing is erased, and the pages go from the address of the
\* match up to the padded length of the binary given, which is inside the
\* slot when the binary is no longer than its header declares.
C28_ReplaceInsideBinary ==
    op = "replace" =>
        /\ ErasesSent = <<>>
        /\ WritesSent # <<>> =>
             /\ NameMatched
             /\ apps[Len(names)].total_size = DeclaredSize
             /\ LET m == apps[Len(names)]
                IN  \A k \in 1..Len(WritesSent) :
                      /\ m.flash_address <= WritesSent[k].addr
                      /\ WritesSent[k].addr < m.flash_address + RoundedUp(Len(GivenBinary))
                      /\ RoundedUp(Len(GivenBinary)) <= DeclaredSize
                           => WritesSent[k].addr < m.flash_address + m.total_size

====
